---- MODULE Spec2Model ----
(***************************************************************************)
(* sqlitui: the Root Controller (ui.Model), the Data Grid                  *)
(* (ui.TableDataModel), the Layout Fitter (fitColumns) and the modal       *)
(* overlays, as a state machine over bubbletea messages.                   *)
(*                                                                         *)
(* Strings are sequences of one-character strings, so that len(), LIKE     *)
(* and concatenation are computed as the code computes them.  Slice and    *)
(* cursor indices are kept 0-based as in the Go source; sequences are      *)
(* 1-based, so element i of a Go slice s is s[i + 1].                      *)
(***************************************************************************)
EXTENDS Integers, Sequences, FiniteSets, Bags, TLC

\* ---------------------------------------------------------------- bounds
\* Most commands (closures handed to the bubbletea runtime) in flight at once.
MaxPending == 2
\* Most characters typed into the grid's filter input or the query editor.
MaxText == 1
\* Most key presses and resizes in one session.
MaxEvents == 5
\* The same, in a session that starts with a collection open in the grid.
MaxGridEvents == 7
\* The same, in a session that starts with a filter committed.
MaxStaleEvents == 6
\* Most resizes of a session that only resizes, most columns of the result
\* it shows, and the widest inner width the Layout Fitter is asked about.
MaxResizes == 2
MaxFitCols == 3
MaxFitWidth == 60
MaxLikeLen == 2
MaxLikeEvents == 3
MaxPickerEvents == 5
MaxPathLen == 5
\* Longest short text wrapped, narrowest-to-widest line widths it is wrapped
\* to, and most key presses of a session that opens the row detail.
MaxWrapLen == 4
MaxWrapWidth == 5
MaxWrapEvents == 2

\* ------------------------------------------------------------- constants
minColWidth == 10
maxColWidth == 40
colPadding == 3
indicatorColLen == 12
\* Rows per page: the pageSize argument the Root Controller passes to
\* NewTableDataModel.
PageSize == 2

\* ---------------------------------------------------------------- helpers
Min(a, b) == IF a < b THEN a ELSE b
Max(a, b) == IF a > b THEN a ELSE b
SetMax(S) == CHOOSE x \in S : \A y \in S : y <= x
\* Go's integer division truncates toward zero.
GoDiv(a, b) == IF a >= 0 THEN a \div b ELSE -((-a) \div b)

\* ------------------------------------------------------- the data source
\* A read-only SQLite file with two tables, listed by name.
TableNames == <<"A", "B">>

TableColumns(t) ==
  IF t = "A" THEN << <<"i", "d">>, <<"n", "a", "m", "e">> >>
  ELSE IF t = "B" THEN << <<"k">>, <<"v">>, <<"w">> >>
  ELSE << >>

TableRecords(t) ==
  IF t = "A" THEN << << <<"1">>, <<"A", "n">> >>,
                     << <<"2">>, <<"a", "n">> >>,
                     << <<"3">>, <<"q">> >>,
                     << <<"4">>, <<"n", "a">> >>,
                     << <<"5">>, <<"N">> >> >>
  ELSE IF t = "B" THEN << << <<"x">>, <<"a">>, <<"n">> >>,
                          << <<"y">>, <<"q">>, <<"a">> >>,
                          << <<"z">>, <<"n">>, <<"q">> >> >>
  ELSE << >>

TableExists(t) == \E i \in 1..Len(TableNames) : TableNames[i] = t

ColumnPos(t, c) ==
  IF \E i \in 1..Len(TableColumns(t)) : TableColumns(t)[i] = c
  THEN CHOOSE i \in 1..Len(TableColumns(t)) : TableColumns(t)[i] = c
  ELSE 0

\* COLLATE NOCASE folds the ASCII letters.
Lower(c) ==
  IF c = "A" THEN "a" ELSE IF c = "N" THEN "n" ELSE IF c = "Q" THEN "q"
  ELSE IF c = "D" THEN "d" ELSE IF c = "B" THEN "b" ELSE c

\* SQLite's LIKE: % matches any run of characters, _ any one character.
RECURSIVE LikeMatch(_, _)
LikeMatch(p, s) ==
  IF p = << >> THEN s = << >>
  ELSE IF Head(p) = "%"
    THEN LikeMatch(Tail(p), s) \/ (s # << >> /\ LikeMatch(p, Tail(s)))
  ELSE IF Head(p) = "_"
    THEN s # << >> /\ LikeMatch(Tail(p), Tail(s))
  ELSE s # << >> /\ Lower(Head(p)) = Lower(Head(s)) /\ LikeMatch(Tail(p), Tail(s))

\* LIMIT ? OFFSET ? over a result list.
LimitOffset(recs, limit, offset) ==
  SubSeq(recs, offset + 1, Min(Len(recs), offset + limit))

ListTables == TableNames

GetRows(t, limit, offset) == LimitOffset(TableRecords(t), limit, offset)

CountRows(t) == Len(TableRecords(t))

\* The records the WHERE clause keeps.  A quoted name that is no column of
\* the table is read as the string of that name.
Matching(t, column, query) ==
  LET pos == ColumnPos(t, column)
      hit(r) == LikeMatch(<<"%">> \o query \o <<"%">>,
                          IF pos = 0 THEN column ELSE r[pos])
  IN SelectSeq(TableRecords(t), hit)

FilterColumn(t, column, query, limit, offset) ==
  LimitOffset(Matching(t, column, query), limit, offset)

CountFilteredRows(t, column, query) == Len(Matching(t, column, query))

\* A statement on a table the file does not have fails.
QueryFails(t) == ~TableExists(t)

\* ---------------------------------------------------------- Layout Fitter
\* A measure that forgets the padding.
measureColWidthNoPadding(colIndex, header, rows) ==
  LET lens == {Len(header)} \cup
              {Len(rows[j][colIndex + 1]) :
                 j \in {k \in 1..Len(rows) : colIndex < Len(rows[k])}}
      w == SetMax(lens)
  IN IF w < minColWidth THEN minColWidth
     ELSE IF w > maxColWidth THEN maxColWidth ELSE w

measureColWidth(colIndex, header, rows) ==
  LET lens == {Len(header)} \cup
              {Len(rows[j][colIndex + 1]) :
                 j \in {k \in 1..Len(rows) : colIndex < Len(rows[k])}}
      w == SetMax(lens) + colPadding
  IN IF w < minColWidth THEN minColWidth
     ELSE IF w > maxColWidth THEN maxColWidth ELSE w

\* The loop of fitColumns from column i on: the widths accepted and their sum.
RECURSIVE fitLoop(_, _, _, _, _, _)
fitLoop(columns, rows, available, i, widths, used) ==
  IF i >= Len(columns) THEN [widths |-> widths, used |-> used]
  ELSE LET w == measureColWidth(i, columns[i + 1], rows)
           remaining == Len(columns) - i - 1
           needed == IF remaining > 0 THEN w + indicatorColLen ELSE w
       IN IF used + needed > available /\ i > 0
          THEN [widths |-> widths, used |-> used]
          ELSE fitLoop(columns, rows, available, i + 1, Append(widths, w), used + w)

\* A fitter that passes over a column that does not fit and goes on.
RECURSIVE fitLoopSkipping(_, _, _, _, _, _)
fitLoopSkipping(columns, rows, available, i, widths, used) ==
  IF i >= Len(columns) THEN [widths |-> widths, used |-> used]
  ELSE LET w == measureColWidth(i, columns[i + 1], rows)
           remaining == Len(columns) - i - 1
           needed == IF remaining > 0 THEN w + indicatorColLen ELSE w
       IN IF used + needed > available /\ i > 0
          THEN fitLoopSkipping(columns, rows, available, i + 1, widths, used)
          ELSE fitLoopSkipping(columns, rows, available, i + 1, Append(widths, w), used + w)

fitColumnsSkipping(columns, rows, innerWidth) ==
  LET available == IF innerWidth - 2 < minColWidth THEN minColWidth ELSE innerWidth - 2
      r == fitLoopSkipping(columns, rows, available, 0, << >>, 0)
      displayCols == Len(r.widths)
      hiddenCols == Len(columns) - displayCols
      leftover == (available - r.used) - (IF hiddenCols > 0 THEN indicatorColLen ELSE 0)
      extra == IF leftover > 0 /\ displayCols > 0 THEN leftover \div displayCols ELSE 0
  IN [displayCols |-> displayCols,
      widths |-> [k \in 1..displayCols |-> r.widths[k] + extra]]

\* A fitter that rounds the share of the leftover up.
fitColumnsRoundUp(columns, rows, innerWidth) ==
  LET available == IF innerWidth - 2 < minColWidth THEN minColWidth ELSE innerWidth - 2
      r == fitLoop(columns, rows, available, 0, << >>, 0)
      displayCols == Len(r.widths)
      hiddenCols == Len(columns) - displayCols
      leftover == (available - r.used) - (IF hiddenCols > 0 THEN indicatorColLen ELSE 0)
      extra == IF leftover > 0 /\ displayCols > 0
               THEN (leftover + displayCols - 1) \div displayCols ELSE 0
  IN [displayCols |-> displayCols,
      widths |-> [k \in 1..displayCols |-> r.widths[k] + extra]]

\* fitColumns with the width test applied to the first column as well.
RECURSIVE fitLoopNoFirst(_, _, _, _, _, _)
fitLoopNoFirst(columns, rows, available, i, widths, used) ==
  IF i >= Len(columns) THEN [widths |-> widths, used |-> used]
  ELSE LET w == measureColWidth(i, columns[i + 1], rows)
           remaining == Len(columns) - i - 1
           needed == IF remaining > 0 THEN w + indicatorColLen ELSE w
       IN IF used + needed > available
          THEN [widths |-> widths, used |-> used]
          ELSE fitLoopNoFirst(columns, rows, available, i + 1, Append(widths, w), used + w)

fitColumnsNoFirst(columns, rows, innerWidth) ==
  LET available == IF innerWidth - 2 < minColWidth THEN minColWidth ELSE innerWidth - 2
      r == fitLoopNoFirst(columns, rows, available, 0, << >>, 0)
      displayCols == Len(r.widths)
      hiddenCols == Len(columns) - displayCols
      leftover == (available - r.used) - (IF hiddenCols > 0 THEN indicatorColLen ELSE 0)
      extra == IF leftover > 0 /\ displayCols > 0 THEN leftover \div displayCols ELSE 0
  IN [displayCols |-> displayCols,
      widths |-> [k \in 1..displayCols |-> r.widths[k] + extra]]

\* fitColumns sharing out the leftover without keeping the indicator's width.
fitColumnsNoReserve(columns, rows, innerWidth) ==
  LET available == IF innerWidth - 2 < minColWidth THEN minColWidth ELSE innerWidth - 2
      r == fitLoop(columns, rows, available, 0, << >>, 0)
      displayCols == Len(r.widths)
      leftover == available - r.used
      extra == IF leftover > 0 /\ displayCols > 0 THEN leftover \div displayCols ELSE 0
  IN [displayCols |-> displayCols,
      widths |-> [k \in 1..displayCols |-> r.widths[k] + extra]]

fitColumns(columns, rows, innerWidth) ==
  LET available == IF innerWidth - 2 < minColWidth THEN minColWidth ELSE innerWidth - 2
      r == fitLoop(columns, rows, available, 0, << >>, 0)
      displayCols == Len(r.widths)
      hiddenCols == Len(columns) - displayCols
      leftover == (available - r.used) - (IF hiddenCols > 0 THEN indicatorColLen ELSE 0)
      extra == IF leftover > 0 /\ displayCols > 0 THEN leftover \div displayCols ELSE 0
  IN [displayCols |-> displayCols,
      widths |-> [k \in 1..displayCols |-> r.widths[k] + extra]]

\* A header that always ends with the indicator cell.
buildTableColumnsAlwaysIndicator(columns, displayCols, widths, totalCols) ==
  [k \in 1..displayCols |-> [Title |-> columns[k], Width |-> widths[k], Indicator |-> FALSE]]
    \o << [Title |-> << >>, Width |-> indicatorColLen, Indicator |-> TRUE] >>

\* The header cells: one per displayed column, then "+ N cols" when some are hidden.
buildTableColumns(columns, displayCols, widths, totalCols) ==
  LET hiddenCols == totalCols - displayCols
  IN [k \in 1..displayCols |-> [Title |-> columns[k], Width |-> widths[k], Indicator |-> FALSE]]
     \o (IF hiddenCols > 0
         THEN << [Title |-> << >>, Width |-> indicatorColLen, Indicator |-> TRUE] >>
         ELSE << >>)

\* truncateRows: result is the rendered rows.  Each fetched row r is a slice
\* with cap(r) = len(r) (scanRows makes it so); r[:maxCols] shares its array,
\* so append(row, "") writes "" into r[maxCols] whenever len(r) > maxCols.
\* rows is the argument as that write leaves it.
truncateRows(rows, maxCols, hasExtra) ==
  [result |-> [i \in 1..Len(rows) |->
                 LET r == rows[i]
                     row == IF Len(r) > maxCols THEN SubSeq(r, 1, maxCols) ELSE r
                 IN IF hasExtra THEN Append(row, << >>) ELSE row],
   rows |-> [i \in 1..Len(rows) |->
               LET r == rows[i]
               IN IF hasExtra /\ Len(r) > maxCols
                  THEN [r EXCEPT ![maxCols + 1] = << >>]
                  ELSE r]]

\* ------------------------------------------------------------- bubbles/table
\* clamp(v, low, high) of bubbles/table: -1 on an empty table.
clamp(v, low, high) == Min(Max(v, low), high)

\* table.SetRows keeps the cursor inside the new rows.
SetRows(m, r) ==
  [m EXCEPT !.tRows = r,
            !.tCursor = IF m.tCursor > Len(r) - 1 THEN Len(r) - 1 ELSE m.tCursor]

SetCursor(m, n) == [m EXCEPT !.tCursor = clamp(n, 0, Len(m.tRows) - 1)]

\* table.Update: the keys the table itself binds (line up / line down).
tableUpdate(m, k) ==
  IF k = "down" THEN SetCursor(m, m.tCursor + 1)
  ELSE IF k = "up" THEN SetCursor(m, m.tCursor - 1)
  ELSE m

\* ------------------------------------------------------------ commands
\* A tea.Cmd is a closure run by the runtime off the event loop; what it
\* captured is what it carries while in flight.  alias is the row of the
\* grid's stored page whose array the command's rows share (0: none).
NoCmd == << >>

MkCmd(kind, tableName, fCol, fQuery, page, cursorEnd, columns, rows) ==
  [kind |-> kind, tableName |-> tableName, fCol |-> fCol, fQuery |-> fQuery,
   page |-> page, pageSize |-> PageSize, cursorEnd |-> cursorEnd,
   columns |-> columns, rows |-> rows, items |-> << >>, from |-> "", alias |-> 0]

listTablesCmd == MkCmd("listTables", "", << >>, << >>, 0, FALSE, << >>, << >>)

loadTableDataCmd(tableName) ==
  MkCmd("loadTableData", tableName, << >>, << >>, 0, FALSE, << >>, << >>)

loadPageCmd(tableName, page, pageSize, cursorEnd) ==
  [MkCmd("loadPage", tableName, << >>, << >>, page, cursorEnd, << >>, << >>)
     EXCEPT !.pageSize = pageSize]

loadFilteredPageCmd(tableName, fCol, fQuery, page, pageSize, cursorEnd) ==
  [MkCmd("loadFilteredPage", tableName, fCol, fQuery, page, cursorEnd, << >>, << >>)
     EXCEPT !.pageSize = pageSize]

\* The select closure keeps m.allRows[cursor], a slice header: the message's
\* Values share the stored row's array, and are read when the message is
\* handled.
rowSelectedCmd(columns, allRows, cursor) ==
  [MkCmd("rowSelected", "", << >>, << >>, 0, FALSE, columns, <<allRows[cursor + 1]>>)
     EXCEPT !.alias = cursor + 1]

\* The commands in flight after the grid m wrote into its stored rows: a
\* record that shares a stored row's array shows what was written.
Realias(bag, m) ==
  BagOfAll(LAMBDA c : IF c.alias > 0 THEN [c EXCEPT !.rows = <<m.allRows[c.alias]>>] ELSE c,
           bag)

\* The commands in flight after the grid's stored rows were replaced: the
\* arrays the records share are written no more.
Detach(bag) == BagOfAll(LAMBDA c : [c EXCEPT !.alias = 0], bag)

tableSelectedCmd(name) ==
  MkCmd("tableSelected", name, << >>, << >>, 0, FALSE, << >>, << >>)

\* tea.Quit
quitCmd == MkCmd("quit", "", << >>, << >>, 0, FALSE, << >>, << >>)

\* The blink command of a text input's cursor (textinput.Blink, Focus, and
\* the command Update returns when the cursor moved or a blink message was
\* answered).  from names the input whose cursor made it: "FilterInput" of
\* the collection list, "fInput" of the grid, "textarea" of the query
\* overlay, "input" of the path picker.
blinkCmd(input) ==
  [MkCmd("blink", "", << >>, << >>, 0, FALSE, << >>, << >>) EXCEPT !.from = input]

\* The command of filterItems: items are the items that matched.
filterMatchesCmd(matches) ==
  [MkCmd("filterMatches", "", << >>, << >>, 0, FALSE, << >>, << >>)
     EXCEPT !.items = matches]

closeDetailCmd == MkCmd("closeDetail", "", << >>, << >>, 0, FALSE, << >>, << >>)

\* The same CloseDetailMsg made by the query overlay's dismiss key.  from is
\* not part of the message: it records which overlay's key made it.
closeQueryCmd == [closeDetailCmd EXCEPT !.from = "queryInput"]

queryResultCmd(columns, rows) ==
  MkCmd("queryResult", "", << >>, << >>, 0, FALSE, columns, rows)

\* ------------------------------------------------------------ Data Grid
\* The zero TableDataModel the Root Controller holds before any data arrives.
ZeroTableData ==
  [tableName |-> "", columns |-> << >>, displayCols |-> 0, allRows |-> << >>,
   width |-> 0, height |-> 0, page |-> 0, pageSize |-> 0, totalRows |-> 0,
   fState |-> "filterOff", fColIndex |-> 0, fColScroll |-> 0, fCol |-> << >>,
   fInput |-> << >>, fInputWidth |-> 0, fActive |-> FALSE, fQuery |-> << >>,
   fTotalRows |-> 0, fPrevPage |-> 0,
   tCols |-> << >>, tRows |-> << >>, tCursor |-> 0, tHeight |-> 0]

NewTableDataModel(name, columns, rows, width, height, page, pageSize, totalRows) ==
  LET innerWidth == width - 2
      fit == fitColumns(columns, rows, innerWidth)
      tr == truncateRows(rows, fit.displayCols, fit.displayCols < Len(columns))
  IN [ZeroTableData EXCEPT
        !.tCols = buildTableColumns(columns, fit.displayCols, fit.widths, Len(columns)),
        !.tRows = tr.result,
        !.tCursor = 0,
        !.tHeight = height - 3,
        !.tableName = name,
        !.columns = columns,
        !.displayCols = fit.displayCols,
        !.allRows = tr.rows,
        !.width = width,
        !.height = height,
        !.page = page,
        !.pageSize = pageSize,
        !.totalRows = totalRows,
        !.fInputWidth = innerWidth - 3]

pickerVisibleCount(m) ==
  LET mv == GoDiv(m.height - 3, 2)
      maxVisible == IF mv < 3 THEN 3 ELSE mv
  IN IF Len(m.columns) < maxVisible THEN Len(m.columns) ELSE maxVisible

totalPages(m) ==
  LET total == IF m.fActive THEN m.fTotalRows ELSE m.totalRows
  IN IF total <= 0 THEN 1 ELSE (total + m.pageSize - 1) \div m.pageSize

\* A next page is offered while the page index is below the page count.
hasNextPageOnLast(m) == m.page < totalPages(m)

hasNextPage(m) == m.page < totalPages(m) - 1

hasPrevPage(m) == m.page > 0

\* A next-page fetch that ignores the committed filter.
nextPageCmdUnfiltered(m) == loadPageCmd(m.tableName, m.page + 1, m.pageSize, FALSE)

nextPageCmd(m) ==
  IF m.fActive
  THEN loadFilteredPageCmd(m.tableName, m.fCol, m.fQuery, m.page + 1, m.pageSize, FALSE)
  ELSE loadPageCmd(m.tableName, m.page + 1, m.pageSize, FALSE)

\* A previous-page fetch that asks for the cursor on the first row.
prevPageCmdCursorTop(m) ==
  IF m.fActive
  THEN loadFilteredPageCmd(m.tableName, m.fCol, m.fQuery, m.page - 1, m.pageSize, FALSE)
  ELSE loadPageCmd(m.tableName, m.page - 1, m.pageSize, FALSE)

prevPageCmd(m) ==
  IF m.fActive
  THEN loadFilteredPageCmd(m.tableName, m.fCol, m.fQuery, m.page - 1, m.pageSize, TRUE)
  ELSE loadPageCmd(m.tableName, m.page - 1, m.pageSize, TRUE)

hasHiddenCols(m) == Len(m.columns) > m.displayCols

tableHeight(m) ==
  LET h0 == m.height - 3
      h == IF m.fState = "filterPickCol" THEN h0 - pickerVisibleCount(m)
           ELSE IF m.fState = "filterInput" THEN h0 - 1 ELSE h0
  IN IF h < 3 THEN 3 ELSE h

SetHeight(m) == [m EXCEPT !.tHeight = tableHeight(m)]

\* m.table.SetRows(truncateRows(m.allRows, ...)): the rendered rows are
\* replaced and the stored rows take truncateRows' write.
ShowAllRows(m) ==
  LET tr == truncateRows(m.allRows, m.displayCols, hasHiddenCols(m))
  IN SetRows([m EXCEPT !.allRows = tr.rows], tr.result)

SetSize(m, width, height) ==
  LET m1 == [m EXCEPT !.width = width, !.height = height]
      innerWidth == width - 2
      fit == fitColumns(m1.columns, m1.allRows, innerWidth)
      m2 == [m1 EXCEPT !.displayCols = fit.displayCols,
                       !.tCols = buildTableColumns(m1.columns, fit.displayCols,
                                                   fit.widths, Len(m1.columns))]
      m3 == SetHeight(ShowAllRows(m2))
  IN [m3 EXCEPT !.fInputWidth = innerWidth - 3]

\* The printable keys: typed into a focused text input as they are.
Runes == {"a", "n", "q"}

\* textinput.Update on a key, the cursor at the end of the text: a rune is
\* appended, backspace deletes the last one.  The cursor moves when the text
\* changes, and a moved cursor restarts its blink.
textinputUpdate(v, k) ==
  IF k \in Runes THEN Append(v, k)
  ELSE IF k = "backspace" /\ Len(v) > 0 THEN SubSeq(v, 1, Len(v) - 1)
  ELSE v

updateNormal(m, k) ==
  IF k = "f"
  THEN [m |-> SetHeight([m EXCEPT !.fState = "filterPickCol", !.fColIndex = 0,
                                  !.fColScroll = 0, !.fPrevPage = m.page]),
        cmd |-> NoCmd]
  ELSE IF k = "]" /\ hasNextPage(m) THEN [m |-> m, cmd |-> <<nextPageCmd(m)>>]
  ELSE IF k = "[" /\ hasPrevPage(m) THEN [m |-> m, cmd |-> <<prevPageCmd(m)>>]
  ELSE IF k = "down" /\ m.tCursor >= Len(m.tRows) - 1 /\ hasNextPage(m)
    THEN [m |-> m, cmd |-> <<nextPageCmd(m)>>]
  ELSE IF k = "up" /\ m.tCursor <= 0 /\ hasPrevPage(m)
    THEN [m |-> m, cmd |-> <<prevPageCmd(m)>>]
  ELSE IF k = "enter" /\ m.tCursor >= 0 /\ m.tCursor < Len(m.allRows)
    THEN [m |-> m, cmd |-> <<rowSelectedCmd(m.columns, m.allRows, m.tCursor)>>]
  ELSE [m |-> tableUpdate(m, k), cmd |-> NoCmd]

\* The esc branch without the restore of the page index.
cancelFilterKeepsPage(m) ==
  LET m1 == [m EXCEPT !.fState = "filterOff", !.fActive = FALSE, !.fQuery = << >>,
                      !.fTotalRows = 0]
  IN SetHeight(SetCursor(ShowAllRows(m1), 0))

\* The esc branch shared by the column picker and the value input.
cancelFilter(m) ==
  LET m1 == [m EXCEPT !.fState = "filterOff", !.fActive = FALSE, !.fQuery = << >>,
                      !.fTotalRows = 0, !.page = m.fPrevPage]
  IN SetHeight(SetCursor(ShowAllRows(m1), 0))

\* m.columns[m.fColIndex] with the index outside the slice is a run-time panic.
pickColPanics(m, k) == k = "enter" /\ m.fColIndex >= Len(m.columns)

\* The picker confirming without the reset of the text input.
updatePickColKeepsInput(m, k) ==
  IF k = "esc" THEN [m |-> cancelFilter(m), cmd |-> NoCmd]
  ELSE IF k = "up"
    THEN [m |-> IF m.fColIndex > 0 THEN [m EXCEPT !.fColIndex = m.fColIndex - 1] ELSE m,
          cmd |-> NoCmd]
  ELSE IF k = "down"
    THEN [m |-> IF m.fColIndex < Len(m.columns) - 1
                THEN [m EXCEPT !.fColIndex = m.fColIndex + 1] ELSE m,
          cmd |-> NoCmd]
  ELSE IF k = "enter"
    THEN [m |-> SetHeight([m EXCEPT !.fCol = m.columns[m.fColIndex + 1],
                                    !.fState = "filterInput"]),
          cmd |-> <<blinkCmd("fInput")>>]
  ELSE [m |-> m, cmd |-> NoCmd]

updatePickCol(m, k) ==
  IF k = "esc" THEN [m |-> cancelFilter(m), cmd |-> NoCmd]
  ELSE IF k = "up"
    THEN [m |-> IF m.fColIndex > 0
                THEN [m EXCEPT !.fColIndex = m.fColIndex - 1,
                               !.fColScroll = IF m.fColIndex - 1 < m.fColScroll
                                              THEN m.fColIndex - 1 ELSE m.fColScroll]
                ELSE m,
          cmd |-> NoCmd]
  ELSE IF k = "down"
    THEN [m |-> IF m.fColIndex < Len(m.columns) - 1
                THEN [m EXCEPT !.fColIndex = m.fColIndex + 1,
                               !.fColScroll =
                                  IF m.fColIndex + 1 >= m.fColScroll + pickerVisibleCount(m)
                                  THEN m.fColIndex + 1 - pickerVisibleCount(m) + 1
                                  ELSE m.fColScroll]
                ELSE m,
          cmd |-> NoCmd]
  ELSE IF k = "enter"
    THEN [m |-> SetHeight([m EXCEPT !.fCol = m.columns[m.fColIndex + 1],
                                    !.fState = "filterInput",
                                    !.fInput = << >>]),
          cmd |-> <<blinkCmd("fInput")>>]
  ELSE [m |-> m, cmd |-> NoCmd]

\* applyFilter without the reset of the page index.
applyFilterKeepsPage(m, fetchOk, countOk) ==
  LET query == m.fInput
  IN IF query = << >>
     THEN [SetCursor(ShowAllRows(m), 0) EXCEPT !.fTotalRows = 0]
     ELSE IF ~fetchOk \/ QueryFails(m.tableName)
     THEN SetCursor(ShowAllRows(m), 0)
     ELSE LET rows == FilterColumn(m.tableName, m.fCol, query, m.pageSize, m.page * m.pageSize)
              total == IF countOk THEN CountFilteredRows(m.tableName, m.fCol, query)
                       ELSE Len(rows)
              m1 == [m EXCEPT !.fTotalRows = total]
              tr == truncateRows(rows, m1.displayCols, hasHiddenCols(m1))
          IN SetCursor(SetRows(m1, tr.result), 0)

\* applyFilter runs its two statements inside Update; fetchOk and countOk say
\* whether the data source answered each.
applyFilter(m, fetchOk, countOk) ==
  LET query == m.fInput
  IN IF query = << >>
     THEN [SetCursor(ShowAllRows(m), 0) EXCEPT !.fTotalRows = 0]
     ELSE IF ~fetchOk \/ QueryFails(m.tableName)
     THEN SetCursor(ShowAllRows(m), 0)
     ELSE LET rows == FilterColumn(m.tableName, m.fCol, query, m.pageSize, 0)
              total == IF countOk THEN CountFilteredRows(m.tableName, m.fCol, query)
                       ELSE Len(rows)
              m1 == [m EXCEPT !.fTotalRows = total, !.page = 0]
              tr == truncateRows(rows, m1.displayCols, hasHiddenCols(m1))
          IN SetCursor(SetRows(m1, tr.result), 0)

\* The text input takes every key but esc and enter; its command, the blink
\* of a moved cursor, is returned.
updateFilterInput(m, k, fetchOk, countOk) ==
  IF k = "esc" THEN [m |-> cancelFilter([m EXCEPT !.fInput = << >>]), cmd |-> NoCmd]
  ELSE IF k = "enter"
    THEN [m |-> SetHeight([m EXCEPT !.fActive = (m.fInput # << >>),
                                    !.fQuery = m.fInput,
                                    !.fState = "filterOff"]),
          cmd |-> NoCmd]
  ELSE [m |-> applyFilter([m EXCEPT !.fInput = textinputUpdate(m.fInput, k)],
                          fetchOk, countOk),
        cmd |-> IF textinputUpdate(m.fInput, k) # m.fInput THEN <<blinkCmd("fInput")>>
                ELSE NoCmd]

\* updateFilterInput on a key that carries the runes text (typed, or pasted
\* as one key): the text input inserts them, then applyFilter runs.
updateFilterInputRunes(m, text, fetchOk, countOk) ==
  [m |-> applyFilter([m EXCEPT !.fInput = m.fInput \o text], fetchOk, countOk),
   cmd |-> IF text # << >> THEN <<blinkCmd("fInput")>> ELSE NoCmd]

\* TableDataModel.Update on a key.
tableDataUpdate(m, k, fetchOk, countOk) ==
  IF m.fState = "filterPickCol" THEN updatePickCol(m, k)
  ELSE IF m.fState = "filterInput" THEN updateFilterInput(m, k, fetchOk, countOk)
  ELSE updateNormal(m, k)

\* The page index the fetch of msg was issued from: the page before the
\* fetched one when it was a next-page fetch, the page after it otherwise.
issuedFrom(msg) == IF msg.cursorEnd THEN msg.page + 1 ELSE msg.page - 1

\* What a page message tells of the context its fetch was issued in still
\* matches the grid m: the grid browses, dialogue closed, at the page index
\* the fetch was issued from and with the same page size.
stillCurrent(m, msg) ==
  /\ m.fState = "filterOff"
  /\ m.page = issuedFrom(msg)
  /\ m.pageSize = msg.pageSize

\* A loaded page swapped into the view: rows, page index and the count the
\* current mode pages over; the cursor goes to the last row when the fetch
\* asked for it, else to the first.
swapPage(m, msg) ==
  LET m1 == [m EXCEPT !.page = msg.page,
                      !.totalRows = IF m.fActive THEN m.totalRows ELSE msg.totalRows,
                      !.fTotalRows = IF m.fActive THEN msg.totalRows ELSE m.fTotalRows]
      tr == truncateRows(msg.rows, m1.displayCols, hasHiddenCols(m1))
      m2 == SetRows([m1 EXCEPT !.allRows = tr.rows], tr.result)
  IN SetCursor(m2, IF msg.cursorEnd THEN Len(msg.rows) - 1 ELSE 0)

\* The handler of a page completion: the page is swapped in when the context
\* of its fetch is still the grid's, and dropped otherwise.
applyPageData(m, msg) == IF stillCurrent(m, msg) THEN swapPage(m, msg) ELSE m

\* ------------------------------------------------------- Collection List
\* bubbles/list.Model as TableListModel holds it.  cursor is the cursor
\* inside the page, page, perPage and totalPages are the Paginator's,
\* filterText and filterPos the value and cursor of FilterInput, and pageKeys
\* says whether the NextPage and PrevPage bindings are enabled.

\* Go's % on ints.
GoMod(a, b) == a - b * GoDiv(a, b)

\* TableItem.FilterValue: the name, here of one character.
FilterValue(name) == <<name>>

\* fuzzy.Find's test: the characters of the term occur in the target in
\* that order, whatever their case.
RECURSIVE fuzzyMatch(_, _)
fuzzyMatch(term, target) ==
  IF term = << >> THEN TRUE
  ELSE IF target = << >> THEN FALSE
  ELSE IF Lower(Head(term)) = Lower(Head(target))
    THEN fuzzyMatch(Tail(term), Tail(target))
  ELSE fuzzyMatch(term, Tail(target))

\* list.DefaultFilter: the matching items.  The order by score is that of
\* the list for names of one character.
DefaultFilter(term, items) ==
  SelectSeq(items, LAMBDA t : fuzzyMatch(term, FilterValue(t)))

VisibleItems(l) == IF l.filterState # "Unfiltered" THEN l.filteredItems ELSE l.items

\* list.Index()
Index(l) == l.page * l.perPage + l.cursor

\* Paginator.ItemsOnPage and OnLastPage
ItemsOnPage(l, total) ==
  IF total < 1 THEN 0
  ELSE Min(l.page * l.perPage + l.perPage, total) - l.page * l.perPage

OnLastPage(l) == l.page = l.totalPages - 1

\* updatePagination: the rows left under the title bar (two lines) and the
\* pagination line (one line when empty, two when it shows the pages) are
\* the page size; the index is kept and the page held inside the pages.
updatePagination(l) ==
  LET index == Index(l)
      availHeight == l.height - 2 - (IF l.totalPages < 2 THEN 1 ELSE 2)
      perPage == Max(1, availHeight)
      n == Len(VisibleItems(l))
      pages == IF n < 1 THEN 1 ELSE (n + perPage - 1) \div perPage
      page == GoDiv(index, perPage)
  IN [l EXCEPT !.perPage = perPage,
               !.totalPages = pages,
               !.cursor = GoMod(index, perPage),
               !.page = IF page >= pages - 1 THEN Max(0, pages - 1) ELSE page]

\* list.New, then the Set calls of NewTableListModel, each ending in
\* updatePagination; the paging keys are disabled last.
NewTableListModel(tables, w, h) ==
  updatePagination(updatePagination(
    [items |-> tables, cursor |-> 0, page |-> 0, perPage |-> 1, totalPages |-> 1,
     filterState |-> "Unfiltered", filterText |-> << >>, filterPos |-> 0,
     filteredItems |-> << >>, pageKeys |-> FALSE, width |-> w - 2, height |-> h - 2]))

tableListSetSize(l, w, h) == updatePagination([l EXCEPT !.width = w - 2, !.height = h - 2])

\* list.Select(index)
Select(l, index) ==
  [l EXCEPT !.page = GoDiv(index, l.perPage), !.cursor = GoMod(index, l.perPage)]

\* list.SelectedItem(): the visible item under the cursor, if there is one.
hasSelectedItem(l) == Index(l) >= 0 /\ Index(l) < Len(VisibleItems(l))

SelectedItem(l) == VisibleItems(l)[Index(l) + 1]

\* resetFiltering; updateKeybindings then enables the paging keys when there
\* is more than one page.
resetFiltering(l) ==
  IF l.filterState = "Unfiltered" THEN l
  ELSE LET l1 == updatePagination([l EXCEPT !.filterState = "Unfiltered",
                                            !.filterText = << >>,
                                            !.filterPos = 0,
                                            !.filteredItems = << >>])
       IN [l1 EXCEPT !.pageKeys = l1.totalPages > 1]

CursorUp(l) ==
  IF l.cursor - 1 < 0 /\ l.page = 0 THEN [l EXCEPT !.cursor = 0]
  ELSE IF l.cursor - 1 >= 0 THEN [l EXCEPT !.cursor = l.cursor - 1]
  ELSE LET l1 == [l EXCEPT !.page = l.page - 1]
       IN [l1 EXCEPT !.cursor = ItemsOnPage(l1, Len(VisibleItems(l))) - 1]

CursorDown(l) ==
  LET itemsOnPage == ItemsOnPage(l, Len(VisibleItems(l)))
  IN IF l.cursor + 1 < itemsOnPage THEN [l EXCEPT !.cursor = l.cursor + 1]
     ELSE IF ~OnLastPage(l) THEN [l EXCEPT !.page = l.page + 1, !.cursor = 0]
     ELSE IF l.cursor + 1 > itemsOnPage THEN [l EXCEPT !.cursor = 0]
     ELSE [l EXCEPT !.cursor = itemsOnPage - 1]

\* The end of handleBrowsing: the cursor is kept inside the page.
keepInBounds(l) ==
  LET itemsOnPage == ItemsOnPage(l, Len(VisibleItems(l)))
  IN IF l.cursor > itemsOnPage - 1 THEN [l EXCEPT !.cursor = Max(0, itemsOnPage - 1)]
     ELSE l

\* handleBrowsing on a key, with the default key map: esc clears an applied
\* filter and quits otherwise.
handleBrowsing(l, k) ==
  IF k = "esc" /\ l.filterState = "FilterApplied"
    THEN [m |-> keepInBounds(resetFiltering(l)), cmd |-> NoCmd]
  ELSE IF k \in {"q", "esc"} THEN [m |-> l, cmd |-> <<quitCmd>>]
  ELSE IF k = "up" /\ Len(l.items) # 0 THEN [m |-> keepInBounds(CursorUp(l)), cmd |-> NoCmd]
  ELSE IF k = "down" /\ Len(l.items) # 0
    THEN [m |-> keepInBounds(CursorDown(l)), cmd |-> NoCmd]
  ELSE IF k = "left" /\ l.pageKeys
    THEN [m |-> keepInBounds([l EXCEPT !.page = IF l.page > 0 THEN l.page - 1 ELSE l.page]),
          cmd |-> NoCmd]
  ELSE IF k \in {"right", "f"} /\ l.pageKeys
    THEN [m |-> keepInBounds([l EXCEPT !.page = IF OnLastPage(l) THEN l.page
                                                ELSE l.page + 1]),
          cmd |-> NoCmd]
  ELSE IF k = "/" /\ Len(l.items) # 0
    THEN [m |-> [l EXCEPT !.filteredItems = IF l.filterText = << >> THEN l.items ELSE @,
                          !.page = 0,
                          !.cursor = 0,
                          !.filterState = "Filtering",
                          !.filterPos = Len(l.filterText),
                          !.pageKeys = FALSE],
          cmd |-> <<blinkCmd("FilterInput")>>]
  ELSE [m |-> keepInBounds(l), cmd |-> NoCmd]

\* The keys of AcceptWhileFiltering that can be pressed here.
AcceptKeys == {"enter", "tab", "up", "down"}

\* FilterInput.Update on a key: textinput inserts a rune at its cursor,
\* deletes the character before it, or moves it.
filterInputUpdate(l, k) ==
  IF k \in Runes
    THEN [l EXCEPT !.filterText = SubSeq(@, 1, l.filterPos) \o <<k>>
                                    \o SubSeq(@, l.filterPos + 1, Len(@)),
                   !.filterPos = @ + 1]
  ELSE IF k = "backspace" /\ l.filterPos > 0
    THEN [l EXCEPT !.filterText = SubSeq(@, 1, l.filterPos - 1)
                                    \o SubSeq(@, l.filterPos + 1, Len(@)),
                   !.filterPos = @ - 1]
  ELSE IF k = "left" /\ l.filterPos > 0 THEN [l EXCEPT !.filterPos = @ - 1]
  ELSE IF k = "right" /\ l.filterPos < Len(l.filterText) THEN [l EXCEPT !.filterPos = @ + 1]
  ELSE l

\* filterItems: the command that matches the items against the filter text
\* it was made with.
filterItems(l) ==
  filterMatchesCmd(IF l.filterText = << >> \/ l.filterState = "Unfiltered"
                   THEN l.items
                   ELSE DefaultFilter(l.filterText, l.items))

\* handleFiltering on a key: esc cancels; an accept key, enabled while the
\* text is not empty, applies the filter or, with nothing to show, resets
\* it; then the input takes the key while it has the focus, a changed text
\* asks for new matches and a moved input cursor restarts the blink.
handleFiltering(l, k) ==
  LET l1 == IF k = "esc" THEN resetFiltering(l)
            ELSE IF k \in AcceptKeys /\ l.filterText # << >> /\ Len(l.items) # 0
              THEN IF Len(VisibleItems(l)) = 0 THEN resetFiltering(l)
                   ELSE [l EXCEPT !.filterState = "FilterApplied",
                                  !.pageKeys = l.totalPages > 1]
            ELSE l
      l2 == IF l1.filterState = "Filtering" THEN filterInputUpdate(l1, k) ELSE l1
      moved == IF l2.filterPos # l1.filterPos THEN <<blinkCmd("FilterInput")>> ELSE NoCmd
      changed == IF l2.filterText # l1.filterText THEN <<filterItems(l2)>> ELSE NoCmd
  IN [m |-> updatePagination(l2), cmd |-> moved \o changed]

\* list.Update on a key.
listUpdate(l, k) ==
  IF l.filterState = "Filtering" THEN handleFiltering(l, k) ELSE handleBrowsing(l, k)

\* list.Update on FilterMatchesMsg.
listFilterMatches(l, matches) == [l EXCEPT !.filteredItems = matches]

\* list.Update on a message it has no case for (a cursor blink).
listOther(l) ==
  IF l.filterState = "Filtering" THEN updatePagination(l) ELSE keepInBounds(l)

tableListUpdate(l, k) ==
  IF l.filterState # "Filtering" /\ k = "enter" /\ hasSelectedItem(l)
  THEN [m |-> l, cmd |-> <<tableSelectedCmd(SelectedItem(l))>>]
  ELSE listUpdate(l, k)

\* --------------------------------------------------------- Modal overlays
ZeroRowDetail == [width |-> 0, height |-> 0, content |-> << >>]

\* strings.Fields: the maximal runs of characters other than the space.
RECURSIVE Fields(_)
Fields(text) ==
  IF text = << >> THEN << >>
  ELSE IF Head(text) = " " THEN Fields(Tail(text))
  ELSE LET spaces == {i \in 1..Len(text) : text[i] = " "}
           n == IF spaces = {} THEN Len(text)
                ELSE (CHOOSE i \in spaces : \A j \in spaces : i <= j) - 1
       IN <<SubSeq(text, 1, n)>> \o Fields(SubSeq(text, n + 1, Len(text)))

\* The first loop of wrapText: a word joins the current line while the line,
\* a space and the word fit; otherwise the line is closed and the word starts
\* the next one.  lipgloss.Width is the length for one-cell characters.
RECURSIVE wrapLines(_, _, _, _)
wrapLines(words, current, lines, maxWidth) ==
  IF words = << >> THEN Append(lines, current)
  ELSE LET word == Head(words)
       IN IF Len(current) + 1 + Len(word) <= maxWidth
          THEN wrapLines(Tail(words), current \o <<" ">> \o word, lines, maxWidth)
          ELSE wrapLines(Tail(words), word, Append(lines, current), maxWidth)

\* The inner loop of the second pass: the longest prefix that fits (one
\* character when none does) is cut off until nothing is left.
RECURSIVE hardBreak(_, _)
hardBreak(runes, maxWidth) ==
  IF runes = << >> THEN << >>
  ELSE LET fit == IF Len(runes) <= maxWidth THEN Len(runes) ELSE maxWidth
           end == IF fit <= 0 THEN 1 ELSE fit
       IN <<SubSeq(runes, 1, end)>> \o hardBreak(SubSeq(runes, end + 1, Len(runes)), maxWidth)

\* The second pass of wrapText: a line that fits is kept, a longer one is cut.
RECURSIVE breakLines(_, _)
breakLines(lines, maxWidth) ==
  IF lines = << >> THEN << >>
  ELSE (IF Len(Head(lines)) <= maxWidth THEN <<Head(lines)>>
        ELSE hardBreak(Head(lines), maxWidth))
       \o breakLines(Tail(lines), maxWidth)

\* wrapText without its second pass.
wrapTextNoHardBreak(text, maxWidth) ==
  IF maxWidth <= 0 \/ Len(text) <= maxWidth THEN <<text>>
  ELSE LET words == Fields(text)
       IN IF Len(words) = 0 THEN << << >> >>
          ELSE wrapLines(Tail(words), Head(words), << >>, maxWidth)

wrapText(text, maxWidth) ==
  IF maxWidth <= 0 \/ Len(text) <= maxWidth THEN <<text>>
  ELSE LET words == Fields(text)
       IN IF Len(words) = 0 THEN << << >> >>
          ELSE breakLines(wrapLines(Tail(words), Head(words), << >>, maxWidth), maxWidth)

\* The width left for a value beside the right-aligned labels and " : ".
detailValueWidth(columns, termWidth) ==
  LET pw == GoDiv(termWidth * 60, 100)
      popupWidth == IF pw < 40 THEN 40 ELSE pw
      contentWidth == popupWidth - 6
      maxLabel == SetMax({0} \cup {Len(columns[i]) : i \in 1..Len(columns)})
      valueWidth == contentWidth - (maxLabel + 3)
  IN IF valueWidth < 10 THEN 10 ELSE valueWidth

\* One entry per column: the label, the value at the same index ("" past
\* the end of values) and the lines the value is wrapped into.
NewRowDetailModel(columns, values, termWidth, termHeight) ==
  LET pw == GoDiv(termWidth * 60, 100)
      ph == GoDiv(termHeight * 70, 100)
  IN [width |-> IF pw < 40 THEN 40 ELSE pw,
      height |-> IF ph < 10 THEN 10 ELSE ph,
      content |-> [i \in 1..Len(columns) |->
                     LET val == IF i - 1 < Len(values) THEN values[i] ELSE << >>
                     IN [label |-> columns[i],
                         value |-> val,
                         lines |-> wrapText(val, detailValueWidth(columns, termWidth))]]]

rowDetailUpdate(d, k) ==
  IF k \in {"esc", "enter"} THEN [m |-> d, cmd |-> <<closeDetailCmd>>]
  ELSE [m |-> d, cmd |-> NoCmd]

\* text is textarea.Value(), the lines joined by "\n", and pos the place of
\* the textarea's cursor in it.
ZeroQueryInput == [text |-> << >>, pos |-> 0, queryErr |-> "", width |-> 0, height |-> 0]

\* The overlay and the command of ta.Focus(), the blink of the textarea's
\* cursor.
NewQueryInputModel(termWidth, termHeight) ==
  LET pw == GoDiv(termWidth * 70, 100)
      ph == GoDiv(termHeight * 50, 100)
  IN [m |-> [text |-> << >>, pos |-> 0, queryErr |-> "",
             width |-> IF pw < 50 THEN 50 ELSE pw,
             height |-> IF ph < 12 THEN 12 ELSE ph],
      cmd |-> <<blinkCmd("textarea")>>]

\* The statement of a text: SQL skips the line breaks around it.
RECURSIVE Statement(_)
Statement(query) ==
  IF query = << >> THEN << >>
  ELSE IF Head(query) = "\n" THEN Statement(Tail(query))
  ELSE IF query[Len(query)] = "\n" THEN Statement(SubSeq(query, 1, Len(query) - 1))
  ELSE query

\* db.ExecQuery on the texts the editor can hold: "a" reads table A, "q" is a
\* statement that returns no columns, anything else does not compile.
ExecQuery(query) ==
  IF Statement(query) = <<"a">>
  THEN [ok |-> TRUE, columns |-> TableColumns("A"), rows |-> TableRecords("A")]
  ELSE IF Statement(query) = <<"q">>
  THEN [ok |-> TRUE, columns |-> << >>, rows |-> << >>]
  ELSE [ok |-> FALSE, columns |-> << >>, rows |-> << >>]

\* The keys that run the statement.
RunKeys == {"ctrl+r", "ctrl+enter"}

\* The end of the line the cursor is on.
LineEnd(text, pos) ==
  CHOOSE j \in pos..Len(text) :
    /\ j = Len(text) \/ text[j + 1] = "\n"
    /\ \A i \in pos..(j - 1) : text[i + 1] # "\n"

\* textarea.Update on a key: a rune or, on enter, a line break is inserted
\* at the cursor; backspace deletes the character before it, joining two
\* lines at the start of one; left and right move it, over line ends too;
\* ctrl+e moves it to the end of its line.
textareaUpdate(q, k) ==
  IF k \in Runes \cup {"enter"}
    THEN [q EXCEPT !.text = SubSeq(@, 1, q.pos) \o <<IF k = "enter" THEN "\n" ELSE k>>
                              \o SubSeq(@, q.pos + 1, Len(@)),
                   !.pos = @ + 1]
  ELSE IF k = "backspace" /\ q.pos > 0
    THEN [q EXCEPT !.text = SubSeq(@, 1, q.pos - 1) \o SubSeq(@, q.pos + 1, Len(@)),
                   !.pos = @ - 1]
  ELSE IF k = "left" /\ q.pos > 0 THEN [q EXCEPT !.pos = @ - 1]
  ELSE IF k = "right" /\ q.pos < Len(q.text) THEN [q EXCEPT !.pos = @ + 1]
  ELSE IF k = "ctrl+e" THEN [q EXCEPT !.pos = LineEnd(q.text, q.pos)]
  ELSE q

\* QueryInputModel.Update emptying the editor when the statement fails.
queryInputUpdateLosesText(q, k) ==
  IF k = "esc" THEN [m |-> q, cmd |-> <<closeQueryCmd>>]
  ELSE IF k \in RunKeys
    THEN IF q.text = << >> THEN [m |-> q, cmd |-> NoCmd]
         ELSE LET res == ExecQuery(q.text)
              IN IF ~res.ok
                 THEN [m |-> [q EXCEPT !.queryErr = "query error", !.text = << >>,
                                       !.pos = 0],
                       cmd |-> NoCmd]
                 ELSE [m |-> q, cmd |-> <<queryResultCmd(res.columns, res.rows)>>]
  ELSE [m |-> textareaUpdate(q, k),
        cmd |-> IF textareaUpdate(q, k).pos # q.pos THEN <<blinkCmd("textarea")>>
                ELSE NoCmd]

queryInputUpdate(q, k) ==
  IF k = "esc" THEN [m |-> q, cmd |-> <<closeQueryCmd>>]
  ELSE IF k \in RunKeys
    THEN IF q.text = << >> THEN [m |-> q, cmd |-> NoCmd]
         ELSE LET res == ExecQuery(q.text)
              IN IF ~res.ok THEN [m |-> [q EXCEPT !.queryErr = "query error"], cmd |-> NoCmd]
                 ELSE [m |-> q, cmd |-> <<queryResultCmd(res.columns, res.rows)>>]
  ELSE [m |-> textareaUpdate(q, k),
        cmd |-> IF textareaUpdate(q, k).pos # q.pos THEN <<blinkCmd("textarea")>>
                ELSE NoCmd]

\* ------------------------------------------------------------ Path Picker
\* The files of the environment, by path: a path not listed does not exist.
\* kind is what os.Stat reports ("locked" is a directory without search
\* permission), opens whether db.Open succeeds, lists whether db.ListTables
\* succeeds on the opened handle.
PathLower == <<"a", ".", "d", "b">>
PathUpper == <<"a", ".", "D", "B">>
PathNoOpen == <<"b", ".", "d", "b">>
PathNoList == <<"c", ".", "d", "b">>
PathDir == <<"d">>
PathDirDb == <<"d", ".", "d", "b">>
PathNoExt == <<"k">>
PathBadExt == <<"a", ".", "j">>
PathLocked == <<"l">>
PathUnderFile == <<"k", "/", "j">>
PathUnderLocked == <<"l", "/", "j">>

FileSystem ==
  {[path |-> PathLower, kind |-> "file", opens |-> TRUE, lists |-> TRUE],
   [path |-> PathUpper, kind |-> "file", opens |-> TRUE, lists |-> TRUE],
   [path |-> PathNoOpen, kind |-> "file", opens |-> FALSE, lists |-> FALSE],
   [path |-> PathNoList, kind |-> "file", opens |-> TRUE, lists |-> FALSE],
   [path |-> PathDir, kind |-> "dir", opens |-> FALSE, lists |-> FALSE],
   [path |-> PathDirDb, kind |-> "dir", opens |-> FALSE, lists |-> FALSE],
   [path |-> PathNoExt, kind |-> "file", opens |-> TRUE, lists |-> FALSE],
   [path |-> PathBadExt, kind |-> "file", opens |-> TRUE, lists |-> TRUE],
   [path |-> PathLocked, kind |-> "locked", opens |-> FALSE, lists |-> FALSE]}

\* A directory entry of the environment, by name.
PathExists(path) == \E f \in FileSystem : f.path = path

\* The place of the first separator of a path, 0 for none.
FirstSlash(path) ==
  IF \E i \in 1..Len(path) : path[i] = "/"
  THEN CHOOSE i \in 1..Len(path) : path[i] = "/" /\ \A j \in 1..(i - 1) : path[j] # "/"
  ELSE 0

\* The first element of a path, and what follows its separator.
PathHead(path) ==
  IF FirstSlash(path) = 0 THEN path ELSE SubSeq(path, 1, FirstSlash(path) - 1)

PathRest(path) ==
  IF FirstSlash(path) = 0 THEN << >> ELSE SubSeq(path, FirstSlash(path) + 1, Len(path))

OnlySlashes(str) == \A i \in 1..Len(str) : str[i] = "/"

\* The root directory, which holds none of the entries.
RootDir == [path |-> <<"/">>, kind |-> "dir", opens |-> FALSE, lists |-> FALSE]

\* What os.Stat reports for a path it resolves: trailing separators after a
\* directory's name still name the directory.
Stat(path) ==
  IF FirstSlash(path) = 1 THEN RootDir
  ELSE CHOOSE f \in FileSystem : f.path = PathHead(path)

\* filepath.Ext: the suffix from the last dot of the last path element.
RECURSIVE ExtFrom(_, _)
ExtFrom(path, i) ==
  IF i < 1 \/ path[i] = "/" THEN << >>
  ELSE IF path[i] = "." THEN SubSeq(path, i, Len(path))
  ELSE ExtFrom(path, i - 1)

Ext(path) == ExtFrom(path, Len(path))

\* strings.ToLower
ToLower(str) == [i \in 1..Len(str) |-> Lower(str[i])]

validExtensions ==
  {<<".", "d", "b">>,
   <<".", "s", "q", "l", "i", "t", "e">>,
   <<".", "s", "q", "l", "i", "t", "e", "3">>}

\* The error of os.Stat, "" for none.  The entries are all in one directory
\* and the directories among them are empty: a name that is not an entry
\* fails with ENOENT; a separator after a regular file's name with ENOTDIR;
\* a name looked up in a directory without search permission with EACCES,
\* and in any other directory with ENOENT.
statErr(path) ==
  IF FirstSlash(path) = 1
  THEN IF OnlySlashes(path) THEN "" ELSE "no such file or directory"
  ELSE IF ~PathExists(PathHead(path)) THEN "no such file or directory"
  ELSE IF FirstSlash(path) = 0 THEN ""
  ELSE IF Stat(path).kind = "file" THEN "not a directory"
  ELSE IF OnlySlashes(PathRest(path)) THEN ""
  ELSE IF Stat(path).kind = "locked" THEN "permission denied"
  ELSE "no such file or directory"

\* The error validatePath returns, "" for none.
validatePath(path) ==
  IF statErr(path) = "no such file or directory" THEN "file not found"
  ELSE IF statErr(path) # "" THEN statErr(path)
  ELSE IF Stat(path).kind \in {"dir", "locked"} THEN "path is a directory, not a file"
  ELSE IF ToLower(Ext(path)) \notin validExtensions THEN "unsupported file extension"
  ELSE ""

\* The database files os.ReadDir finds in the current directory, by name.
findSQLiteFiles == <<PathUpper, PathLower, PathNoOpen, PathNoList>>

ZeroFilePicker ==
  [input |-> << >>, inputFocus |-> FALSE, files |-> << >>, cursor |-> 0,
   focused |-> "focusInput", pathErr |-> "", width |-> 0, height |-> 0]

NewFilePickerModel(files) ==
  [ZeroFilePicker EXCEPT !.files = files,
                         !.focused = IF Len(files) > 0 THEN "focusList" ELSE "focusInput",
                         !.inputFocus = (Len(files) = 0)]

switchToList(m, cursor) ==
  [m |-> [m EXCEPT !.focused = "focusList", !.cursor = cursor, !.inputFocus = FALSE],
   cmd |-> NoCmd]

\* m.input.Focus() returns the blink command of the input's cursor.
switchToInput(m) ==
  [m |-> [m EXCEPT !.focused = "focusInput", !.inputFocus = TRUE],
   cmd |-> <<blinkCmd("input")>>]

\* FilePickerModel.Init: textinput.Blink when the text field has the focus.
filePickerInit(m) == IF m.focused = "focusInput" THEN <<blinkCmd("input")>> ELSE NoCmd

dbOpenedCmd(path, tables) == [kind |-> "dbOpened", db |-> path, tables |-> tables]

\* The path submit resolves: the highlighted file, or the typed text.
submitPath(m) ==
  IF m.focused = "focusList" /\ Len(m.files) > 0 THEN m.files[m.cursor + 1] ELSE m.input

\* A submit that emits the event whatever the path is.
submitUnchecked(m) ==
  [m |-> m, cmd |-> <<dbOpenedCmd(submitPath(m), ListTables)>>]

submit(m) ==
  LET path == submitPath(m)
  IN IF path = << >> THEN [m |-> m, cmd |-> NoCmd]
     ELSE IF validatePath(path) # ""
       THEN [m |-> [m EXCEPT !.pathErr = validatePath(path)], cmd |-> NoCmd]
     ELSE IF ~Stat(path).opens
       THEN [m |-> [m EXCEPT !.pathErr = "open failed"], cmd |-> NoCmd]
     ELSE IF ~Stat(path).lists
       THEN [m |-> [m EXCEPT !.pathErr = "list failed"], cmd |-> NoCmd]
     ELSE [m |-> m, cmd |-> <<dbOpenedCmd(path, ListTables)>>]

\* textinput.Model.Update on a key: runes are inserted at the end, backspace
\* deletes the last one, and a blurred input ignores the key.  A moved cursor
\* restarts its blink.
pickerInputUpdate(m, k) ==
  IF ~m.inputFocus THEN [m |-> m, cmd |-> NoCmd]
  ELSE IF k = "backspace" /\ Len(m.input) > 0
    THEN [m |-> [m EXCEPT !.input = SubSeq(m.input, 1, Len(m.input) - 1)],
          cmd |-> <<blinkCmd("input")>>]
  ELSE [m |-> m, cmd |-> NoCmd]

\* A key that carries runes (typed, or pasted as one key).
pickerInputRunes(m, runes) ==
  IF m.inputFocus /\ runes # << >>
  THEN [m |-> [m EXCEPT !.input = m.input \o runes], cmd |-> <<blinkCmd("input")>>]
  ELSE [m |-> m, cmd |-> NoCmd]

\* FilePickerModel.Update on the up key.
filePickerUp(m) ==
  IF Len(m.files) = 0 THEN [m |-> m, cmd |-> NoCmd]
  ELSE IF m.focused = "focusInput" THEN switchToList(m, Len(m.files) - 1)
  ELSE IF m.cursor > 0 THEN [m |-> [m EXCEPT !.cursor = m.cursor - 1], cmd |-> NoCmd]
  ELSE switchToInput(m)

\* A down key that moves the list cursor whatever row it is on.
filePickerDownPastEnd(m) ==
  IF Len(m.files) = 0 THEN [m |-> m, cmd |-> NoCmd]
  ELSE IF m.focused = "focusInput" THEN switchToList(m, 0)
  ELSE [m |-> [m EXCEPT !.cursor = m.cursor + 1], cmd |-> NoCmd]

\* FilePickerModel.Update on the down key.
filePickerDown(m) ==
  IF Len(m.files) = 0 THEN [m |-> m, cmd |-> NoCmd]
  ELSE IF m.focused = "focusInput" THEN switchToList(m, 0)
  ELSE IF m.cursor < Len(m.files) - 1
    THEN [m |-> [m EXCEPT !.cursor = m.cursor + 1], cmd |-> NoCmd]
  ELSE [m |-> m, cmd |-> NoCmd]

\* FilePickerModel.Update on a key without runes that the picker does not
\* handle itself.
filePickerOther(m, k) ==
  IF m.focused = "focusInput" THEN pickerInputUpdate(m, k) ELSE [m |-> m, cmd |-> NoCmd]

\* FilePickerModel.Update on a key that carries the runes text.
filePickerRunes(m, text) ==
  IF m.focused = "focusList"
  THEN IF text = <<"k">>
       THEN (IF m.cursor > 0 THEN [m |-> [m EXCEPT !.cursor = m.cursor - 1], cmd |-> NoCmd]
             ELSE switchToInput(m))
       ELSE IF text = <<"j">>
       THEN [m |-> IF m.cursor < Len(m.files) - 1 THEN [m EXCEPT !.cursor = m.cursor + 1]
                   ELSE m,
             cmd |-> NoCmd]
       ELSE [m |-> m, cmd |-> NoCmd]
  ELSE pickerInputRunes(m, text)

\* FilePickerModel.Update on a message that is neither a key nor a resize:
\* the text field, when it has the focus, gets it, and its cursor answers a
\* blink message with the next blink command.
filePickerBlink(m) ==
  [m |-> m, cmd |-> IF m.focused = "focusInput" /\ m.inputFocus THEN <<blinkCmd("input")>>
                    ELSE NoCmd]

\* -------------------------------------------------------- Root Controller
VARIABLES
  focused,      \* Model.focused: "paneList" or "paneData"
  loaded,       \* Model.loaded
  dataLoaded,   \* Model.dataLoaded
  width,        \* Model.width
  height,       \* Model.height
  err,          \* Model.err ("" is nil)
  tableList,    \* Model.tableList
  tableData,    \* Model.tableData
  rowDetail,    \* Model.rowDetail
  showDetail,   \* Model.showDetail
  queryInput,   \* Model.queryInput
  showQuery,    \* Model.showQuery
  leftWidth,    \* Model.leftWidth
  rightWidth,   \* Model.rightWidth
  pending,      \* the commands in flight, a bag
  run,          \* "running", "quit" (tea.Quit was returned) or "panic"
  term,         \* the terminal's size, as its last tea.WindowSizeMsg reported it
  wanted,       \* the collection whose load was issued last ("" before the first)
  budget,       \* the key presses and resizes the user has left
  picker        \* the FilePickerModel shown before a session exists

vars == <<focused, loaded, dataLoaded, width, height, err, tableList, tableData,
          rowDetail, showDetail, queryInput, showQuery, leftWidth, rightWidth,
          pending, run, term, wanted, budget, picker>>

\* The terminal sizes a resize can report.
Sizes == {<<50, 20>>, <<120, 40>>}

Keys == {"tab", "right", "left", "q", "ctrl+e", "enter", "esc", "f", "]", "[",
         "up", "down", "a", "n", "backspace", "ctrl+r", "ctrl+enter", "/"}

\* Printable keys outside Runes: not pressed while a text input has the keys.
OtherPrintable == {"f", "]", "[", "/"}

ZeroTableList == NewTableListModel(<< >>, 2, 2)

Init ==
  /\ focused = "paneList"
  /\ loaded = FALSE
  /\ dataLoaded = FALSE
  /\ width = 0
  /\ height = 0
  /\ err = ""
  /\ tableList = ZeroTableList
  /\ tableData = ZeroTableData
  /\ rowDetail = ZeroRowDetail
  /\ showDetail = FALSE
  /\ queryInput = ZeroQueryInput
  /\ showQuery = FALSE
  /\ leftWidth = 0
  /\ rightWidth = 0
  /\ pending = SetToBag({listTablesCmd})
  /\ run = "running"
  /\ picker = ZeroFilePicker
  /\ term = <<0, 0>>
  /\ wanted = ""
  /\ budget = MaxEvents

calcPaneSizes(w) ==
  LET available == w - 4
      lw == GoDiv(available * 30, 100)
      left == IF lw < 25 THEN 25 ELSE lw
  IN [leftWidth |-> left, rightWidth |-> available - left]

paneHeightOf(h) == Max(h - 4, 5)

paneHeight == paneHeightOf(height)

\* The limit loadTableDataCmd passes to GetRows when a collection is opened.
loadLimit == 1000

\* The page, pageSize and totalRows arguments of NewTableDataModel for an
\* opened collection, which the call of the tableDataLoadedMsg case does not
\* give: page 0, the page size and the record count of the collection.
openPaging(total) == [page |-> 0, pageSize |-> PageSize, totalRows |-> total]

\* A query result is one page holding the whole result.
queryPaging(rows) == [page |-> 0, pageSize |-> Max(Len(rows), 1), totalRows |-> Len(rows)]

\* The message of the command that opens a collection: its name, its
\* columns and its first loadLimit records.
loadTableDataMsg(tableName) ==
  [type |-> "tableDataLoadedMsg", tableName |-> tableName,
   columns |-> TableColumns(tableName),
   rows |-> GetRows(tableName, loadLimit, 0)]

\* What a command's closure returns when the data source answers.  The
\* record of a rowSelected command is read when the message is handled.  A
\* page message carries its rows, page index, page size, count and cursor
\* request; the collection and the filter its closure captured stay behind.
RunCmd(c) ==
  IF c.kind = "listTables" THEN [type |-> "tablesLoadedMsg", tables |-> ListTables]
  ELSE IF c.kind = "loadTableData" THEN loadTableDataMsg(c.tableName)
  ELSE IF c.kind = "loadPage"
    THEN [type |-> "pageDataLoadedMsg",
          rows |-> GetRows(c.tableName, c.pageSize, c.page * c.pageSize),
          page |-> c.page, pageSize |-> c.pageSize,
          totalRows |-> CountRows(c.tableName), cursorEnd |-> c.cursorEnd]
  ELSE IF c.kind = "loadFilteredPage"
    THEN [type |-> "pageDataLoadedMsg",
          rows |-> FilterColumn(c.tableName, c.fCol, c.fQuery, c.pageSize,
                                c.page * c.pageSize),
          page |-> c.page, pageSize |-> c.pageSize,
          totalRows |-> CountFilteredRows(c.tableName, c.fCol, c.fQuery),
          cursorEnd |-> c.cursorEnd]
  ELSE IF c.kind = "rowSelected"
    THEN [type |-> "RowSelectedMsg", Columns |-> c.columns, Values |-> c.rows[1]]
  ELSE IF c.kind = "tableSelected" THEN [type |-> "TableSelectedMsg", Name |-> c.tableName]
  ELSE IF c.kind = "queryResult"
    THEN [type |-> "QueryResultMsg", Columns |-> c.columns, Rows |-> c.rows]
  ELSE IF c.kind = "filterMatches" THEN [type |-> "FilterMatchesMsg", items |-> c.items]
  ELSE IF c.kind = "blink" THEN [type |-> "BlinkMsg", id |-> c.from]
  ELSE [type |-> "CloseDetailMsg"]

\* The commands that query the data source, and so can return errMsg.
IsFetch(c) == c.kind \in {"listTables", "loadTableData", "loadPage", "loadFilteredPage"}

CmdFails(c) == c.kind # "listTables" /\ QueryFails(c.tableName)

InFlight == BagToSet(pending)

\* The commands an Update returned go in flight.  A blink command made while
\* one of the same cursor is in flight replaces it: the cursor answers the
\* newest one only.
RECURSIVE Issue(_, _)
Issue(bag, cmd) ==
  IF cmd = NoCmd THEN bag
  ELSE IF Head(cmd).kind = "blink" /\ BagIn(Head(cmd), bag) THEN Issue(bag, Tail(cmd))
  ELSE Issue(bag (+) SetToBag({Head(cmd)}), Tail(cmd))

Done(c) == pending (-) SetToBag({c})

\* The commands in flight but the blink timers.
Tasks(bag) == [c \in {d \in BagToSet(bag) : d.kind # "blink"} |-> CopiesIn(c, bag)]

\* The commands in flight that MaxPending counts: all but the blink timers.
Load(bag) == BagCardinality(bag) - Cardinality({c \in BagToSet(bag) : c.kind = "blink"})

Running == run = "running"

\* One key press or resize by the user.
UserEvent == budget > 0 /\ budget' = budget - 1

NoOverlay == ~showQuery /\ ~showDetail

\* ------------------------------------------------------------ key presses
\* Model.Update, showQuery branch: the query overlay gets the key.  The
\* line-up and line-down keys are not pressed in the editor, and a text of
\* line breaks only is not run.
KeyQueryInput(k) ==
  /\ Running /\ UNCHANGED picker /\ UserEvent /\ showQuery
  /\ k \notin OtherPrintable \cup {"up", "down"}
  /\ k \in Runes \cup {"enter"} => Len(queryInput.text) < MaxText
  /\ k \in RunKeys => (queryInput.text = << >> \/ Statement(queryInput.text) # << >>)
  /\ LET r == queryInputUpdate(queryInput, k)
     IN /\ queryInput' = r.m
        /\ pending' = Issue(pending, r.cmd)
        /\ Load(pending') <= MaxPending
  /\ UNCHANGED <<focused, loaded, dataLoaded, width, height, err, tableList, tableData,
                 rowDetail, showDetail, showQuery, leftWidth, rightWidth, run, term, wanted>>

\* Model.Update, showDetail branch: the row-detail overlay gets the key.
KeyRowDetail(k) ==
  /\ Running /\ UNCHANGED picker /\ UserEvent /\ ~showQuery /\ showDetail
  /\ LET r == rowDetailUpdate(rowDetail, k)
     IN /\ rowDetail' = r.m
        /\ pending' = Issue(pending, r.cmd)
        /\ Load(pending') <= MaxPending
  /\ UNCHANGED <<focused, loaded, dataLoaded, width, height, err, tableList, tableData,
                 showDetail, queryInput, showQuery, leftWidth, rightWidth, run, term, wanted>>

\* The switch-focus key answered whether or not an overlay is open.
KeySwitchTabUnderOverlay ==
  /\ Running /\ UNCHANGED picker /\ UserEvent
  /\ focused' = IF focused = "paneList" THEN "paneData" ELSE "paneList"
  /\ UNCHANGED <<loaded, dataLoaded, width, height, err, tableList, tableData, rowDetail,
                 showDetail, queryInput, showQuery, leftWidth, rightWidth, pending, run, term, wanted>>

KeySwitchTab ==
  /\ Running /\ UNCHANGED picker /\ UserEvent /\ NoOverlay
  /\ focused' = IF focused = "paneList" THEN "paneData" ELSE "paneList"
  /\ UNCHANGED <<loaded, dataLoaded, width, height, err, tableList, tableData, rowDetail,
                 showDetail, queryInput, showQuery, leftWidth, rightWidth, pending, run, term, wanted>>

FocusRightTaken == focused = "paneList" /\ loaded

KeyFocusRight ==
  /\ Running /\ UNCHANGED picker /\ UserEvent /\ NoOverlay /\ FocusRightTaken
  /\ IF tableList.filterState = "Filtering"
     THEN UNCHANGED <<focused, pending, wanted>>
     ELSE /\ focused' = "paneData"
          /\ IF hasSelectedItem(tableList)
                /\ (~dataLoaded \/ tableData.tableName # SelectedItem(tableList))
             THEN /\ pending' = Issue(pending, <<loadTableDataCmd(SelectedItem(tableList))>>)
                  /\ wanted' = SelectedItem(tableList)
             ELSE UNCHANGED <<pending, wanted>>
          /\ Load(pending') <= MaxPending
  /\ UNCHANGED <<loaded, dataLoaded, width, height, err, tableList, tableData, rowDetail,
                 showDetail, queryInput, showQuery, leftWidth, rightWidth, run, term>>

FocusLeftTaken == focused = "paneData"

KeyFocusLeft ==
  /\ Running /\ UNCHANGED picker /\ UserEvent /\ NoOverlay /\ FocusLeftTaken
  /\ focused' = "paneList"
  /\ UNCHANGED <<loaded, dataLoaded, width, height, err, tableList, tableData, rowDetail,
                 showDetail, queryInput, showQuery, leftWidth, rightWidth, pending, run, term, wanted>>

\* The quit key is passed on to the focused pane only while the collection
\* list has the focus and is searching.
QuitSuppressed == focused = "paneList" /\ tableList.filterState = "Filtering"

KeyQuit ==
  /\ Running /\ UNCHANGED picker /\ UserEvent /\ NoOverlay /\ ~QuitSuppressed
  /\ run' = "quit"
  /\ UNCHANGED <<focused, loaded, dataLoaded, width, height, err, tableList, tableData,
                 rowDetail, showDetail, queryInput, showQuery, leftWidth, rightWidth,
                 pending, term, wanted>>

KeyOpenQuery ==
  /\ Running /\ UNCHANGED picker /\ UserEvent /\ NoOverlay
  /\ LET r == NewQueryInputModel(width, height)
     IN /\ queryInput' = r.m
        /\ pending' = Issue(pending, r.cmd)
  /\ showQuery' = TRUE
  /\ UNCHANGED <<focused, loaded, dataLoaded, width, height, err, tableList, tableData,
                 rowDetail, showDetail, leftWidth, rightWidth, run, term, wanted>>

\* The keys the Root Controller answers itself, in the order it tests them.
RootTakes(k) ==
  \/ k = "tab"
  \/ k = "right" /\ FocusRightTaken
  \/ k = "left" /\ FocusLeftTaken
  \/ k = "q" /\ ~QuitSuppressed
  \/ k = "ctrl+e"

\* Delegation to the collection list; tea.Quit ends the program.
KeyTableList(k) ==
  /\ Running /\ UNCHANGED picker /\ UserEvent /\ NoOverlay /\ ~RootTakes(k)
  /\ focused = "paneList" /\ loaded
  /\ tableList.filterState = "Filtering" =>
       /\ k \notin OtherPrintable
       /\ k \in Runes => Len(tableList.filterText) < MaxText
  /\ LET r == tableListUpdate(tableList, k)
     IN /\ tableList' = r.m
        /\ IF r.cmd = <<quitCmd>>
           THEN run' = "quit" /\ UNCHANGED pending
           ELSE /\ pending' = Issue(pending, r.cmd)
                /\ Load(pending') <= MaxPending
                /\ UNCHANGED run
  /\ UNCHANGED <<focused, loaded, dataLoaded, width, height, err, tableData, rowDetail,
                 showDetail, queryInput, showQuery, leftWidth, rightWidth, term, wanted>>

\* Delegation to the Data Grid.
KeyTableData(k, fetchOk, countOk) ==
  /\ Running /\ UNCHANGED picker /\ UserEvent /\ NoOverlay /\ ~RootTakes(k)
  /\ focused = "paneData" /\ dataLoaded
  /\ tableData.fState = "filterInput" =>
       /\ k \notin OtherPrintable
       /\ k \in Runes => Len(tableData.fInput) < MaxText
  /\ IF tableData.fState = "filterPickCol" /\ pickColPanics(tableData, k)
     THEN /\ run' = "panic"
          /\ UNCHANGED <<tableData, pending>>
     ELSE /\ LET r == tableDataUpdate(tableData, k, fetchOk, countOk)
             IN /\ tableData' = r.m
                /\ pending' = Issue(Realias(pending, r.m), r.cmd)
                /\ Load(pending') <= MaxPending
          /\ UNCHANGED run
  /\ UNCHANGED <<focused, loaded, dataLoaded, width, height, err, tableList, rowDetail,
                 showDetail, queryInput, showQuery, leftWidth, rightWidth, term, wanted>>

\* Whether the data source answers the statements a key press runs inside
\* Update: the keys that never reach applyFilter run none.
Answers(k) == IF k \in {"enter", "esc"} \cup OtherPrintable THEN {TRUE} ELSE BOOLEAN

Key(k) ==
  \/ KeyQueryInput(k)
  \/ KeyRowDetail(k)
  \/ k = "tab" /\ KeySwitchTab
  \/ k = "right" /\ KeyFocusRight
  \/ k = "left" /\ KeyFocusLeft
  \/ k = "q" /\ KeyQuit
  \/ k = "ctrl+e" /\ KeyOpenQuery
  \/ KeyTableList(k)
  \/ \E fetchOk, countOk \in Answers(k) : KeyTableData(k, fetchOk, countOk)

\* ----------------------------------------------------------------- resize
\* tea.WindowSizeMsg: an open overlay gets the message (and ignores it);
\* otherwise the Root Controller recomputes the layout.
WindowSize(w, h) ==
  /\ Running /\ UNCHANGED picker /\ UserEvent
  /\ term' = <<w, h>>
  /\ IF ~NoOverlay
     THEN UNCHANGED <<width, height, leftWidth, rightWidth, tableList, tableData, pending>>
     ELSE LET ps == calcPaneSizes(w)
          IN /\ width' = w
             /\ height' = h
             /\ leftWidth' = ps.leftWidth
             /\ rightWidth' = ps.rightWidth
             /\ tableList' = IF loaded
                             THEN tableListSetSize(tableList, ps.leftWidth, paneHeightOf(h))
                             ELSE tableList
             /\ tableData' = IF dataLoaded
                             THEN SetSize(tableData, ps.rightWidth, paneHeightOf(h))
                             ELSE tableData
             /\ pending' = IF dataLoaded THEN Realias(pending, tableData') ELSE pending
  /\ UNCHANGED <<focused, loaded, dataLoaded, err, rowDetail, showDetail, queryInput,
                 showQuery, run, wanted>>

\* --------------------------------------------------- completion messages
\* A message that reaches an open overlay which has no case for it: the
\* overlay's Update ignores it.
Ignored(c) ==
  /\ pending' = Done(c)
  /\ UNCHANGED <<focused, loaded, dataLoaded, width, height, err, tableList, tableData,
                 rowDetail, showDetail, queryInput, showQuery, leftWidth, rightWidth,
                 run, term, wanted>>

TablesLoaded(c) ==
  /\ Running /\ UNCHANGED picker /\ UNCHANGED budget /\ c \in InFlight /\ c.kind = "listTables"
  /\ IF ~NoOverlay THEN Ignored(c)
     ELSE LET msg == RunCmd(c)
          IN /\ tableList' = NewTableListModel(msg.tables, leftWidth, paneHeight)
             /\ loaded' = TRUE
             /\ IF Len(msg.tables) > 0
                THEN /\ pending' = Issue(Done(c), <<loadTableDataCmd(msg.tables[1])>>)
                     /\ wanted' = msg.tables[1]
                ELSE /\ pending' = Done(c)
                     /\ UNCHANGED wanted
             /\ UNCHANGED <<focused, dataLoaded, width, height, err, tableData, rowDetail,
                            showDetail, queryInput, showQuery, leftWidth, rightWidth,
                            run, term>>

TableDataLoaded(c) ==
  /\ Running /\ UNCHANGED picker /\ UNCHANGED budget /\ c \in InFlight /\ c.kind = "loadTableData" /\ ~CmdFails(c)
  /\ IF ~NoOverlay THEN Ignored(c)
     ELSE LET msg == RunCmd(c)
              pg == openPaging(CountRows(msg.tableName))
          IN /\ tableData' = NewTableDataModel(msg.tableName, msg.columns, msg.rows,
                                               rightWidth, paneHeight,
                                               pg.page, pg.pageSize, pg.totalRows)
             /\ dataLoaded' = TRUE
             /\ pending' = Detach(Done(c))
             /\ UNCHANGED <<focused, loaded, width, height, err, tableList, rowDetail,
                            showDetail, queryInput, showQuery, leftWidth, rightWidth,
                            run, term, wanted>>

\* pageDataLoadedMsg: the page is swapped into the grid when its fetch is
\* still current; a stale one leaves the grid as it is.
PageDataLoaded(c) ==
  /\ Running /\ UNCHANGED picker /\ UNCHANGED budget /\ c \in InFlight /\ c.kind \in {"loadPage", "loadFilteredPage"}
  /\ ~CmdFails(c)
  /\ IF ~NoOverlay \/ ~dataLoaded THEN Ignored(c)
     ELSE /\ tableData' = applyPageData(tableData, RunCmd(c))
          /\ pending' = IF stillCurrent(tableData, RunCmd(c)) THEN Detach(Done(c))
                        ELSE Done(c)
          /\ UNCHANGED <<focused, loaded, dataLoaded, width, height, err, tableList,
                         rowDetail, showDetail, queryInput, showQuery, leftWidth,
                         rightWidth, run, term, wanted>>

\* errMsg: a fetch whose statement failed.
ErrMsg(c) ==
  /\ Running /\ UNCHANGED picker /\ UNCHANGED budget /\ c \in InFlight /\ IsFetch(c)
  /\ IF ~NoOverlay THEN Ignored(c)
     ELSE /\ err' = "query failed"
          /\ pending' = Done(c)
          /\ UNCHANGED <<focused, loaded, dataLoaded, width, height, tableList, tableData,
                         rowDetail, showDetail, queryInput, showQuery, leftWidth,
                         rightWidth, run, term, wanted>>

TableSelected(c) ==
  /\ Running /\ UNCHANGED picker /\ UNCHANGED budget /\ c \in InFlight /\ c.kind = "tableSelected"
  /\ IF ~NoOverlay THEN Ignored(c)
     ELSE /\ pending' = Issue(Done(c), <<loadTableDataCmd(RunCmd(c).Name)>>)
          /\ wanted' = RunCmd(c).Name
          /\ UNCHANGED <<focused, loaded, dataLoaded, width, height, err, tableList,
                         tableData, rowDetail, showDetail, queryInput, showQuery,
                         leftWidth, rightWidth, run, term>>

\* RowSelectedMsg opening the row detail without looking at the query overlay.
RowSelectedOverQuery(c) ==
  /\ Running /\ UNCHANGED picker /\ UNCHANGED budget /\ c \in InFlight /\ c.kind = "rowSelected"
  /\ LET msg == RunCmd(c)
     IN /\ rowDetail' = NewRowDetailModel(msg.Columns, msg.Values, width, height)
        /\ showDetail' = TRUE
        /\ pending' = Done(c)
        /\ UNCHANGED <<focused, loaded, dataLoaded, width, height, err, tableList,
                       tableData, queryInput, showQuery, leftWidth, rightWidth,
                       run, term, wanted>>

RowSelected(c) ==
  /\ Running /\ UNCHANGED picker /\ UNCHANGED budget /\ c \in InFlight /\ c.kind = "rowSelected"
  /\ IF ~NoOverlay THEN Ignored(c)
     ELSE LET msg == RunCmd(c)
          IN /\ rowDetail' = NewRowDetailModel(msg.Columns, msg.Values, width, height)
             /\ showDetail' = TRUE
             /\ pending' = Done(c)
             /\ UNCHANGED <<focused, loaded, dataLoaded, width, height, err, tableList,
                            tableData, queryInput, showQuery, leftWidth, rightWidth,
                            run, term, wanted>>

\* A message the Root Controller has no case for arrives with no overlay
\* open: the focused pane gets it, and the grid's table ignores it.  list is
\* what the collection list, focused and loaded, becomes.
Delegated(list) ==
  /\ tableList' = IF focused = "paneList" /\ loaded THEN list ELSE tableList
  /\ UNCHANGED <<focused, loaded, dataLoaded, width, height, err, tableData, rowDetail,
                 showDetail, queryInput, showQuery, leftWidth, rightWidth, run, term,
                 wanted>>

\* CloseDetailMsg closes whichever overlay is open, the query overlay first;
\* with none open it is passed to the focused pane.
CloseDetail(c) ==
  /\ Running /\ UNCHANGED picker /\ UNCHANGED budget /\ c \in InFlight /\ c.kind = "closeDetail"
  /\ pending' = Done(c)
  /\ IF NoOverlay THEN Delegated(listOther(tableList))
     ELSE /\ showQuery' = FALSE
          /\ showDetail' = IF showQuery THEN showDetail ELSE FALSE
          /\ UNCHANGED <<focused, loaded, dataLoaded, width, height, err, tableList,
                         tableData, rowDetail, queryInput, leftWidth, rightWidth, run,
                         term, wanted>>

\* QueryResultMsg: the query overlay, open, shows the result in the grid; the
\* row detail ignores the message; with no overlay open it is passed to the
\* focused pane.
QueryResult(c) ==
  /\ Running /\ UNCHANGED picker /\ UNCHANGED budget /\ c \in InFlight /\ c.kind = "queryResult"
  /\ IF showQuery
     THEN LET msg == RunCmd(c)
              pg == queryPaging(msg.Rows)
          IN /\ showQuery' = FALSE
             /\ tableData' = NewTableDataModel("query result", msg.Columns, msg.Rows,
                                               rightWidth, paneHeight,
                                               pg.page, pg.pageSize, pg.totalRows)
             /\ dataLoaded' = TRUE
             /\ focused' = "paneData"
             /\ pending' = Detach(Done(c))
             /\ UNCHANGED <<loaded, width, height, err, tableList, rowDetail, showDetail,
                            queryInput, leftWidth, rightWidth, run, term, wanted>>
     ELSE IF showDetail THEN Ignored(c)
     ELSE pending' = Done(c) /\ Delegated(listOther(tableList))

\* FilterMatchesMsg has no case in the Root Controller: an open overlay gets
\* it, else the focused pane, and the collection list keeps the matches.
FilterMatches(c) ==
  /\ Running /\ UNCHANGED picker /\ UNCHANGED budget /\ c \in InFlight
  /\ c.kind = "filterMatches"
  /\ IF NoOverlay
     THEN pending' = Done(c) /\ Delegated(listFilterMatches(tableList, RunCmd(c).items))
     ELSE Ignored(c)

\* A blink message goes the same way.  The cursor it belongs to answers it
\* with the next blink command when its input gets the message and has the
\* focus: the textarea while the query overlay is open, the list's filter
\* input while the list has the focus and is filtering.  The grid passes
\* messages that are not keys to its table only, so its filter input's blink
\* is never answered.
Blink(c) ==
  /\ Running /\ UNCHANGED picker /\ UNCHANGED budget /\ c \in InFlight /\ c.kind = "blink"
  /\ IF showQuery
     THEN /\ pending' = IF RunCmd(c).id = "textarea" THEN pending ELSE Done(c)
          /\ UNCHANGED <<focused, loaded, dataLoaded, width, height, err, tableList,
                         tableData, rowDetail, showDetail, queryInput, showQuery,
                         leftWidth, rightWidth, run, term, wanted>>
     ELSE IF showDetail THEN Ignored(c)
     ELSE /\ pending' = IF /\ focused = "paneList" /\ loaded
                           /\ tableList.filterState = "Filtering"
                           /\ RunCmd(c).id = "FilterInput"
                        THEN pending ELSE Done(c)
          /\ Delegated(listOther(tableList))

\* Model.View: which screen is drawn.
View ==
  IF err # "" THEN "error"
  ELSE IF ~loaded THEN "loading"
  ELSE IF showDetail THEN "rowDetail"
  ELSE IF showQuery THEN "queryInput"
  ELSE "panes"

DeliverTablesLoaded == \E c \in InFlight : TablesLoaded(c)
DeliverTableDataLoaded == \E c \in InFlight : TableDataLoaded(c)
DeliverPageDataLoaded == \E c \in InFlight : PageDataLoaded(c)
DeliverErrMsg == \E c \in InFlight : ErrMsg(c)
DeliverTableSelected == \E c \in InFlight : TableSelected(c)
DeliverRowSelected == \E c \in InFlight : RowSelected(c)
DeliverCloseDetail == \E c \in InFlight : CloseDetail(c)
DeliverQueryResult == \E c \in InFlight : QueryResult(c)
DeliverFilterMatches == \E c \in InFlight : FilterMatches(c)
DeliverBlink == \E c \in InFlight : Blink(c)

Next ==
  \/ \E k \in Keys : Key(k)
  \/ \E sz \in Sizes : WindowSize(sz[1], sz[2])
  \/ DeliverTablesLoaded
  \/ DeliverTableDataLoaded
  \/ DeliverPageDataLoaded
  \/ DeliverErrMsg
  \/ DeliverTableSelected
  \/ DeliverRowSelected
  \/ DeliverCloseDetail
  \/ DeliverQueryResult
  \/ DeliverFilterMatches
  \/ DeliverBlink

Spec == Init /\ [][Next]_vars

\* ----------------------------------------------------- the Data Grid alone
\* The grid the tableDataLoadedMsg handler builds for collection t.
OpenedGrid(t) ==
  LET pg == openPaging(CountRows(t))
  IN NewTableDataModel(t, TableColumns(t), GetRows(t, loadLimit, 0),
                       0, paneHeightOf(0), pg.page, pg.pageSize, pg.totalRows)

\* The session once collection t is open and the grid, in state grid, has the
\* focus: Spec reaches it by loading the list, loading t and pressing tab.
GridWith(t, grid) ==
  /\ focused = "paneData"
  /\ loaded = TRUE
  /\ dataLoaded = TRUE
  /\ width = 0
  /\ height = 0
  /\ err = ""
  /\ tableList = Select(NewTableListModel(ListTables, 0, paneHeightOf(0)),
                        (CHOOSE i \in 1..Len(TableNames) : TableNames[i] = t) - 1)
  /\ tableData = grid
  /\ rowDetail = ZeroRowDetail
  /\ showDetail = FALSE
  /\ queryInput = ZeroQueryInput
  /\ showQuery = FALSE
  /\ leftWidth = 0
  /\ rightWidth = 0
  /\ pending = EmptyBag
  /\ run = "running"
  /\ picker = ZeroFilePicker
  /\ term = <<0, 0>>
  /\ wanted = t

GridOpen(t) == GridWith(t, OpenedGrid(t))

InitGrid == (\E t \in {"A", "B"} : GridOpen(t)) /\ budget = MaxGridEvents

GridKeys == Keys \ {"tab", "left", "q", "ctrl+e"}

NextGrid ==
  \/ \E k \in GridKeys : \E fetchOk, countOk \in Answers(k) : KeyTableData(k, fetchOk, countOk)
  \/ \E k \in GridKeys : KeyRowDetail(k)
  \/ \E sz \in Sizes : WindowSize(sz[1], sz[2])
  \/ DeliverPageDataLoaded
  \/ DeliverErrMsg
  \/ DeliverRowSelected
  \/ DeliverCloseDetail
  \/ DeliverBlink

SpecGrid == InitGrid /\ [][NextGrid]_vars

\* ------------------------------------------------------- page navigation
\* The grid after the filter dialogue was opened on grid m, the column at
\* index col picked, the one-character text typed and the filter committed.
RECURSIVE PickDown(_, _)
PickDown(m, n) == IF n = 0 THEN m ELSE PickDown(updatePickCol(m, "down").m, n - 1)

FilteredGrid(m, col, text) ==
  LET opened == updateNormal(m, "f").m
      picked == updatePickCol(PickDown(opened, col), "enter").m
      typed == updateFilterInput(picked, text, TRUE, TRUE).m
  IN updateFilterInput(typed, "enter", TRUE, TRUE).m

\* A collection open in the grid, browsing, with or without a committed filter.
InitNav ==
  /\ \E t \in {"A", "B"} :
       \/ GridOpen(t)
       \/ \E col \in 0..(Len(TableColumns(t)) - 1) : \E text \in Runes :
            GridWith(t, FilteredGrid(OpenedGrid(t), col, text))
  /\ budget = MaxGridEvents

\* A collection open in the grid with a filter committed: the session in
\* which a filtered page is fetched and the filter changed before it arrives.
InitStale ==
  /\ \E t \in {"A", "B"} : \E col \in 0..(Len(TableColumns(t)) - 1) : \E text \in Runes :
       GridWith(t, FilteredGrid(OpenedGrid(t), col, text))
  /\ budget = MaxStaleEvents

SpecStale == InitStale /\ [][NextGrid]_vars

NavKeys == {"]", "[", "up", "down"}

NextNav ==
  \/ \E k \in NavKeys : KeyTableData(k, TRUE, TRUE)
  \/ DeliverPageDataLoaded
  \/ DeliverErrMsg

SpecNav == InitNav /\ [][NextNav]_vars

\* ------------------------------------------------------ the filter dialogue
\* The grid of collection t after page p was fetched and swapped in.
PagedGrid(t, p) ==
  IF p = 0 THEN OpenedGrid(t)
  ELSE swapPage(OpenedGrid(t), RunCmd(loadPageCmd(t, p, PageSize, FALSE)))

\* A collection open in the grid on any of its pages, no fetch in flight.
InitFilter ==
  /\ \E t \in {"A", "B"} : \E p \in 0..(totalPages(OpenedGrid(t)) - 1) :
       GridWith(t, PagedGrid(t, p))
  /\ budget = MaxGridEvents

\* The keys of the filter dialogue; none of them fetches a page.
FilterKeys == GridKeys \ NavKeys

NextFilter ==
  \/ \E k \in FilterKeys : \E fetchOk, countOk \in Answers(k) : KeyTableData(k, fetchOk, countOk)
  \/ \E k \in FilterKeys : KeyRowDetail(k)
  \/ DeliverRowSelected
  \/ DeliverCloseDetail
  \/ DeliverBlink

SpecFilter == InitFilter /\ [][NextFilter]_vars

\* ---------------------------------------------------------- Layout Fitter
\* A text of n characters.
Text(n) == [i \in 1..n |-> "x"]

\* The lengths of the headers and of the cells of the results fitted.
HeaderLens == {1, 8, 45}

CellLens == {0, 20}

FitColumnLists == UNION {[1..n -> {Text(l) : l \in HeaderLens}] : n \in 1..MaxFitCols}

\* No row, or one row whose cells all have the same length.
FitRowLists(columns) ==
  {<< >>} \cup {<<[i \in 1..Len(columns) |-> Text(l)]>> : l \in CellLens}

FitSizes == {<<10, 20>>, <<50, 20>>, <<120, 40>>, <<200, 50>>}

\* The session after a statement run in the query overlay returned columns
\* and rows: the QueryResultMsg handler built the grid and gave it the focus.
InitFit ==
  /\ \E columns \in FitColumnLists : \E rows \in FitRowLists(columns) :
       tableData = LET pg == queryPaging(rows)
                   IN NewTableDataModel("query result", columns, rows, 0, paneHeightOf(0),
                                        pg.page, pg.pageSize, pg.totalRows)
  /\ focused = "paneData"
  /\ loaded = TRUE
  /\ dataLoaded = TRUE
  /\ width = 0
  /\ height = 0
  /\ err = ""
  /\ tableList = NewTableListModel(ListTables, 0, paneHeightOf(0))
  /\ rowDetail = ZeroRowDetail
  /\ showDetail = FALSE
  /\ queryInput = [NewQueryInputModel(0, 0).m EXCEPT !.text = <<"a">>, !.pos = 1]
  /\ showQuery = FALSE
  /\ leftWidth = 0
  /\ rightWidth = 0
  /\ pending = EmptyBag
  /\ run = "running"
  /\ picker = ZeroFilePicker
  /\ term = <<0, 0>>
  /\ wanted = "A"
  /\ budget = MaxResizes

NextFit == \E sz \in FitSizes : WindowSize(sz[1], sz[2])

SpecFit == InitFit /\ [][NextFit]_vars

\* ------------------------------------------------- the Path Picker alone
\* The picker is on screen and no session exists yet.
Picking == run = "picking"

\* What a picker step leaves alone: the session that does not exist yet.
PickerFrame ==
  UNCHANGED <<focused, loaded, dataLoaded, width, height, err, tableList, tableData,
              rowDetail, showDetail, queryInput, showQuery, leftWidth, rightWidth, wanted>>

\* The texts a key can carry: a typed rune, or a path pasted as one key.
PathMissing == <<"x", ".", "d", "b">>

TypedTexts ==
  {<<"k">>, <<"j">>, PathLower, PathUpper, PathNoOpen, PathNoList, PathDir, PathDirDb,
   PathBadExt, PathMissing, PathUnderFile, PathUnderLocked, <<"/">>}

PickerKeyEnter ==
  /\ Picking /\ UserEvent
  /\ LET r == submit(picker)
     IN /\ picker' = r.m
        /\ pending' = Issue(pending, r.cmd)
        /\ Load(pending') <= MaxPending
  /\ UNCHANGED <<run, term>> /\ PickerFrame

PickerKeyQuit ==
  /\ Picking /\ UserEvent
  /\ run' = "quit"
  /\ UNCHANGED <<picker, pending, term>> /\ PickerFrame

PickerKeyUp ==
  /\ Picking /\ UserEvent
  /\ LET r == filePickerUp(picker)
     IN picker' = r.m /\ pending' = Issue(pending, r.cmd)
  /\ UNCHANGED <<run, term>> /\ PickerFrame

PickerKeyDown ==
  /\ Picking /\ UserEvent
  /\ LET r == filePickerDown(picker)
     IN picker' = r.m /\ pending' = Issue(pending, r.cmd)
  /\ UNCHANGED <<run, term>> /\ PickerFrame

PickerKeyRunes(text) ==
  /\ Picking /\ UserEvent
  /\ picker.focused = "focusInput" => Len(picker.input) + Len(text) <= MaxPathLen
  /\ LET r == filePickerRunes(picker, text)
     IN picker' = r.m /\ pending' = Issue(pending, r.cmd)
  /\ UNCHANGED <<run, term>> /\ PickerFrame

PickerKeyBackspace ==
  /\ Picking /\ UserEvent
  /\ LET r == filePickerOther(picker, "backspace")
     IN picker' = r.m /\ pending' = Issue(pending, r.cmd)
  /\ UNCHANGED <<run, term>> /\ PickerFrame

PickerWindowSize(w, h) ==
  /\ Picking /\ UserEvent
  /\ picker' = [picker EXCEPT !.width = w, !.height = h]
  /\ term' = <<w, h>>
  /\ UNCHANGED <<pending, run>> /\ PickerFrame

\* A blink message of the text field's cursor reaches the picker.
PickerBlink(c) ==
  /\ Picking /\ UNCHANGED budget /\ c \in InFlight /\ c.kind = "blink"
  /\ pending' = Issue(Done(c), filePickerBlink(picker).cmd)
  /\ UNCHANGED <<picker, run, term>> /\ PickerFrame

DeliverPickerBlink == \E c \in InFlight : PickerBlink(c)

\* The program starts on the picker: the current directory's database files
\* are listed, or none when the directory cannot be read.
InitPicker ==
  /\ \E files \in {<< >>, findSQLiteFiles} : picker = NewFilePickerModel(files)
  /\ run = "picking"
  /\ focused = "paneList"
  /\ loaded = FALSE
  /\ dataLoaded = FALSE
  /\ width = 0
  /\ height = 0
  /\ err = ""
  /\ tableList = ZeroTableList
  /\ tableData = ZeroTableData
  /\ rowDetail = ZeroRowDetail
  /\ showDetail = FALSE
  /\ queryInput = ZeroQueryInput
  /\ showQuery = FALSE
  /\ leftWidth = 0
  /\ rightWidth = 0
  /\ pending = Issue(EmptyBag, filePickerInit(picker))
  /\ term = <<0, 0>>
  /\ wanted = ""
  /\ budget = MaxPickerEvents

NextPicker ==
  \/ PickerKeyEnter
  \/ PickerKeyQuit
  \/ PickerKeyUp
  \/ PickerKeyDown
  \/ \E text \in TypedTexts : PickerKeyRunes(text)
  \/ PickerKeyBackspace
  \/ \E sz \in Sizes : PickerWindowSize(sz[1], sz[2])
  \/ DeliverPickerBlink

SpecPicker == InitPicker /\ [][NextPicker]_vars

\* ------------------------------------------- the filter input, any text
\* The characters of a filter text, the wildcards of LIKE among them.
LikeAlphabet == {"a", "n", "A", "_", "%"}

LikeTexts == UNION {[1..n -> LikeAlphabet] : n \in 1..MaxLikeLen}

\* The grid with the filter input open on its column number col.
FilterInputOn(m, col) ==
  updatePickCol(PickDown(updateNormal(m, "f").m, col), "enter").m

\* A collection open on any of its pages, the filter input open on any of
\* its columns.
InitLike ==
  /\ \E t \in {"A", "B"} : \E p \in 0..(totalPages(OpenedGrid(t)) - 1) :
       \E col \in 0..(Len(TableColumns(t)) - 1) :
         GridWith(t, FilterInputOn(PagedGrid(t, p), col))
  /\ budget = MaxLikeEvents

\* A key carrying runes arrives while the filter input has the keys.
KeyFilterRunes(text) ==
  /\ Running /\ UNCHANGED picker /\ UserEvent /\ NoOverlay
  /\ focused = "paneData" /\ dataLoaded
  /\ tableData.fState = "filterInput"
  /\ Len(tableData.fInput) + Len(text) <= MaxLikeLen
  /\ LET r == updateFilterInputRunes(tableData, text, TRUE, TRUE)
     IN /\ tableData' = r.m
        /\ pending' = Issue(Realias(pending, r.m), r.cmd)
  /\ UNCHANGED <<focused, loaded, dataLoaded, width, height, err, tableList, rowDetail,
                 showDetail, queryInput, showQuery, leftWidth, rightWidth, run,
                 term, wanted>>

NextLike ==
  \/ \E text \in LikeTexts : KeyFilterRunes(text)
  \/ KeyTableData("backspace", TRUE, TRUE)
  \/ DeliverBlink

SpecLike == InitLike /\ [][NextLike]_vars

\* ------------------------------------------------ the row detail's lines
\* The values shown: every text of letters and spaces up to MaxWrapLen, and
\* the longest of them three times over, too long for the narrowest popup.
WrapShortTexts == UNION {[1..n -> {"a", "b", " "}] : n \in 0..MaxWrapLen}

WrapTexts ==
  WrapShortTexts \cup {t \o t \o t : t \in {u \in WrapShortTexts : Len(u) = MaxWrapLen}}

\* Label lengths that leave 30, 12 and 10 cells for the value in a popup of
\* the smallest width.
WrapLabelLens == {1, 19, 21}

\* The session after a statement returned one column and one record: the
\* grid shows it and has the focus.
InitWrap ==
  /\ \E l \in WrapLabelLens : \E text \in WrapTexts :
       tableData = LET rows == << <<text>> >>
                       pg == queryPaging(rows)
                   IN NewTableDataModel("query result", <<Text(l)>>, rows, 0,
                                        paneHeightOf(0), pg.page, pg.pageSize, pg.totalRows)
  /\ focused = "paneData"
  /\ loaded = TRUE
  /\ dataLoaded = TRUE
  /\ width = 0
  /\ height = 0
  /\ err = ""
  /\ tableList = NewTableListModel(ListTables, 0, paneHeightOf(0))
  /\ rowDetail = ZeroRowDetail
  /\ showDetail = FALSE
  /\ queryInput = [NewQueryInputModel(0, 0).m EXCEPT !.text = <<"a">>, !.pos = 1]
  /\ showQuery = FALSE
  /\ leftWidth = 0
  /\ rightWidth = 0
  /\ pending = EmptyBag
  /\ run = "running"
  /\ picker = ZeroFilePicker
  /\ term = <<0, 0>>
  /\ wanted = "A"
  /\ budget = MaxWrapEvents

NextWrap ==
  \/ KeyTableData("enter", TRUE, TRUE)
  \/ \E k \in {"esc", "down"} : KeyRowDetail(k)
  \/ DeliverRowSelected
  \/ DeliverCloseDetail

SpecWrap == InitWrap /\ [][NextWrap]_vars

\* ================================================================ claims
\* --------------------------------------------------------------------- C2
\* The records the data source holds, and the column lists they belong to.
SourceRecords ==
  UNION {{TableRecords(t)[i] : i \in 1..Len(TableRecords(t))} : t \in {"A", "B"}}

SourceColumns == {TableColumns(t) : t \in {"A", "B"}}

\* C2: every record-selected event carries a full column list and one value
\* per column, the values being those of a record of the data source whatever
\* displayCols is; the row-detail overlay lists every column with that value.
C2_SelectCarriesFullRecord ==
  /\ \A c \in InFlight : c.kind = "rowSelected" =>
       /\ c.columns \in SourceColumns
       /\ Len(c.rows[1]) = Len(c.columns)
       /\ c.rows[1] \in SourceRecords
  /\ showDetail =>
       /\ Len(rowDetail.content) \in {Len(cs) : cs \in SourceColumns}
       /\ [i \in 1..Len(rowDetail.content) |-> rowDetail.content[i].value] \in SourceRecords

\* --------------------------------------------------------------------- C4
\* C4: once the grid shows the collection selected last, no completion
\* replaces it with another collection until the user selects again: a
\* table-data completion for an earlier selection is not applied.
C4_GridShowsLatestSelection ==
  [][(dataLoaded /\ ~showQuery /\ tableData.tableName = wanted /\ wanted' = wanted)
       => tableData'.tableName = wanted]_vars

\* --------------------------------------------------------------------- C6
\* C6: the row-detail overlay and the query overlay are never both open.
C6_AtMostOneOverlay == ~(showDetail /\ showQuery)

\* The query overlay is open while a record-selected event is still in flight.
C6_Witness == showQuery /\ ~showDetail /\ \E c \in InFlight : c.kind = "rowSelected"

\* --------------------------------------------------------------------- C7
KeyPress == \E k \in Keys : Key(k)

\* C7: a key pressed while an overlay is open changes neither the focus, the
\* collection list, the Data Grid nor the overlay flags, and does not quit.
C7_OverlayOwnsKeys ==
  [][(~NoOverlay /\ KeyPress)
       => UNCHANGED <<focused, tableList, tableData, dataLoaded, showDetail, showQuery,
                      run, width, height, leftWidth, rightWidth>>]_vars

\* The quit key was typed into the open query overlay as a character.
C7_Witness == showQuery /\ queryInput.text = <<"q">> /\ run = "running"

\* --------------------------------------------------------------------- C8
\* C8: the session's width and height are those of the last resize, whether
\* or not an overlay was open when it arrived.
C8_ResizeAlwaysHandled == width = term[1] /\ height = term[2]

\* --------------------------------------------------------------------- C9
\* A free-text input of the focused pane is capturing the keys.
TextInputCapturing ==
  \/ focused = "paneList" /\ loaded /\ tableList.filterState = "Filtering"
  \/ focused = "paneData" /\ dataLoaded /\ tableData.fState = "filterInput"

\* C9: no step taken while a free-text input is capturing the keys quits
\* the program.
C9_NoQuitWhileTyping ==
  [][(NoOverlay /\ TextInputCapturing) => run' # "quit"]_vars

\* --------------------------------------------------------------------- C1
PageInRange(m) == 0 <= m.page /\ m.page < totalPages(m)

\* A next-page press on the last page or a previous-page press on page 0.
EdgePress ==
  \/ KeyTableData("]", TRUE, TRUE) /\ tableData.page >= totalPages(tableData) - 1
  \/ KeyTableData("[", TRUE, TRUE) /\ tableData.page <= 0

\* A move-down gesture on the last page or a move-up gesture on page 0.
EdgeGesture ==
  \/ KeyTableData("down", TRUE, TRUE) /\ tableData.page >= totalPages(tableData) - 1
  \/ KeyTableData("up", TRUE, TRUE) /\ tableData.page <= 0

\* C1: the grid's page index stays within 0 <= page < totalPages through
\* every navigation press and completion, and a press past either end issues
\* no fetch and changes nothing.
C1_PageWithinBounds ==
  /\ [](dataLoaded => PageInRange(tableData))
  /\ [][EdgePress => UNCHANGED <<tableData, pending>>]_vars
  /\ [][EdgeGesture => UNCHANGED pending]_vars

\* The last page of a three-page collection, reached by two completed fetches.
C1_Witness ==
  /\ dataLoaded /\ tableData.tableName = "A" /\ ~tableData.fActive
  /\ tableData.page = 2 /\ totalPages(tableData) = 3
  /\ pending = EmptyBag

\* --------------------------------------------------------------------- C3
\* The filter the grid shows is not the one the fetch c was issued for: no
\* filter is committed, or the collection, the committed column or the
\* committed text differ, or another text is being typed.
FilterChangedSince(c) ==
  \/ ~tableData.fActive
  \/ c.tableName # tableData.tableName
  \/ c.fCol # tableData.fCol
  \/ c.fQuery # tableData.fQuery
  \/ (tableData.fState = "filterInput" /\ tableData.fInput # c.fQuery)

FirstCells(rows) == [i \in 1..Len(rows) |-> rows[i][1]]

\* C5: with no page fetched since the filter was first opened, re-opening a
\* committed filter and cancelling it leaves the grid browsing without a
\* filter, on the page whose unfiltered rows are the rows displayed.
C5_CancelRestoresPage ==
  [][(/\ KeyTableData("esc", TRUE, TRUE)
      /\ tableData.fState = "filterPickCol"
      /\ tableData.fActive)
     => /\ tableData'.fState = "filterOff"
        /\ ~tableData'.fActive
        /\ FirstCells(tableData'.tRows) =
             FirstCells(GetRows(tableData'.tableName, tableData'.pageSize,
                                tableData'.page * tableData'.pageSize))]_vars

\* -------------------------------------------------------------------- C10
FitWidths == (0 - 3)..MaxFitWidth

\* C10: for a non-empty column list the Layout Fitter returns, at every inner
\* width, at least one displayed column and exactly one width per displayed
\* column; the grid built from it displays at least one column.
C10_FitShowsAtLeastOne ==
  (dataLoaded /\ Len(tableData.columns) > 0) =>
    /\ tableData.displayCols >= 1
    /\ \A w \in FitWidths :
         LET fit == fitColumns(tableData.columns, tableData.allRows, w)
         IN /\ fit.displayCols >= 1
            /\ fit.displayCols <= Len(tableData.columns)
            /\ Len(fit.widths) = fit.displayCols

\* A first column wider than the whole budget is the one column displayed.
C10_Witness ==
  /\ Len(tableData.columns) = MaxFitCols
  /\ tableData.width < 0
  /\ tableData.displayCols = 1
  /\ tableData.tCols[1].Width > minColWidth

\* -------------------------------------------------------------------- C11
RECURSIVE SumSeq(_)
SumSeq(q) == IF q = << >> THEN 0 ELSE Head(q) + SumSeq(Tail(q))

\* The budget fitColumns works with: the inner width less the table border,
\* and never less than minColWidth.
fitAvailable(innerWidth) ==
  IF innerWidth - 2 < minColWidth THEN minColWidth ELSE innerWidth - 2

\* The widths returned for inner width w, with the indicator's width when
\* columns are hidden, stay within the budget.
FitWithinBudget(columns, rows, w) ==
  LET fit == fitColumns(columns, rows, w)
  IN SumSeq(fit.widths) + (IF fit.displayCols < Len(columns) THEN indicatorColLen ELSE 0)
       <= fitAvailable(w)

\* The first column, with the indicator's width if other columns follow it,
\* fits the budget.
FirstColumnFits(columns, rows, w) ==
  measureColWidth(0, columns[1], rows)
    + (IF Len(columns) > 1 THEN indicatorColLen ELSE 0) <= fitAvailable(w)

\* C11 as stated: at every width the returned widths plus the indicator
\* reservation never exceed the available width.
C11_WidthsWithinBudget ==
  (dataLoaded /\ Len(tableData.columns) > 0) =>
    \A w \in FitWidths : FitWithinBudget(tableData.columns, tableData.allRows, w)

\* C11 amended: the returned widths plus the indicator reservation never
\* exceed the available width, unless the only column displayed is the first
\* one and it was accepted although it does not fit.
C11_WidthsWithinBudgetUnlessForced ==
  (dataLoaded /\ Len(tableData.columns) > 0) =>
    \A w \in FitWidths :
      LET fit == fitColumns(tableData.columns, tableData.allRows, w)
      IN (fit.displayCols >= 2 \/ FirstColumnFits(tableData.columns, tableData.allRows, w))
           => FitWithinBudget(tableData.columns, tableData.allRows, w)

\* Two columns are displayed, a third is hidden, and leftover was shared out.
C11_Witness ==
  /\ tableData.displayCols = 2 /\ hasHiddenCols(tableData)
  /\ tableData.tCols[1].Width > measureColWidth(0, tableData.columns[1], tableData.allRows)

\* -------------------------------------------------------------------- C12
\* C12: a failed fetch is recorded as the session's error and leaves the
\* grid as it was, and once data is loaded the screen keeps showing the
\* panes (or the open overlay) rather than the error screen.
C12_FailedFetchKeepsPage ==
  /\ [][(DeliverErrMsg /\ NoOverlay) => (err' # "" /\ tableData' = tableData)]_vars
  /\ []((dataLoaded /\ err # "") => View # "error")

\* -------------------------------------------------------------------- C13
\* C13: the execute key on a statement that fails keeps the query overlay
\* open with its text, sets the inline error, emits nothing and leaves the
\* grid alone; on an empty editor it changes nothing at all.
C13_FailedQueryStaysInline ==
  [][((\E k \in RunKeys : KeyQueryInput(k))
        /\ (queryInput.text = << >> \/ ~ExecQuery(queryInput.text).ok))
       => /\ showQuery'
          /\ queryInput'.text = queryInput.text
          /\ pending' = pending
          /\ tableData' = tableData /\ dataLoaded' = dataLoaded
          /\ IF queryInput.text = << >> THEN queryInput' = queryInput
             ELSE queryInput'.queryErr # ""]_vars

\* A failed statement: the overlay is open with its text and its error.
C13_Witness ==
  showQuery /\ queryInput.text = <<"n">> /\ queryInput.queryErr # "" /\ Load(pending) = 0

\* -------------------------------------------------------------------- C14
\* C14: applying a query result closes the query overlay, gives the grid the
\* focus and replaces the grid by a fresh view named "query result" that
\* holds exactly the result's columns and rows, browsing page 0, no filter.
C14_QueryResultReplacesGrid ==
  [][\A c \in InFlight :
       (QueryResult(c) /\ showQuery)
       => /\ ~showQuery' /\ dataLoaded' /\ focused' = "paneData"
          /\ tableData'.tableName = "query result"
          /\ tableData'.columns = c.columns
          /\ tableData'.allRows = c.rows
          /\ tableData'.fState = "filterOff" /\ ~tableData'.fActive
          /\ tableData'.fQuery = << >> /\ tableData'.fInput = << >>
          /\ tableData'.page = 0]_vars

\* -------------------------------------------------------------------- C15
\* C15: a completion is applied whenever it arrives, overlay open or not: an
\* error becomes the session's error, a collection list is loaded, a
\* collection's data is put into the grid.
C15_CompletionsAlwaysApplied ==
  /\ [][DeliverErrMsg => err' # ""]_vars
  /\ [][DeliverTablesLoaded => loaded']_vars
  /\ [][\A c \in InFlight : TableDataLoaded(c)
          => (dataLoaded' /\ tableData'.tableName = c.tableName)]_vars

\* -------------------------------------------------------------------- C16
\* A key typed into the filter input leaves a non-empty text, and the
\* filtered fetch or the filtered count it runs fails.
FilterQueryFails ==
  /\ tableData.fState = "filterInput"
  /\ tableData'.fState = "filterInput" /\ tableData'.fInput # << >>
  /\ \E k \in GridKeys : \E fetchOk, countOk \in Answers(k) :
       KeyTableData(k, fetchOk, countOk) /\ ~(fetchOk /\ countOk)

\* C16: when the filtered fetch or count run by a keystroke fails, an error
\* is recorded for the user to see.
C16_FilterFailureVisible == [][FilterQueryFails => err' # ""]_vars

\* -------------------------------------------------------------------- C17
\* The first page of the records of t whose column matches text.
FirstMatchingPage(m, text) ==
  LimitOffset(Matching(m.tableName, m.fCol, text), m.pageSize, 0)

\* The grid displays exactly these records: one row per record, in order,
\* each shown column holding the record's value.
Displays(m, records) ==
  /\ Len(m.tRows) = Len(records)
  /\ \A i \in 1..Len(records) : \A j \in 1..m.displayCols :
       m.tRows[i][j] = records[i][j]

\* A key typed into the filter input leaves a non-empty text and the data
\* source answers both statements.
FilterKeystroke ==
  /\ tableData.fState = "filterInput"
  /\ tableData'.fState = "filterInput" /\ tableData'.fInput # << >>
  /\ ~QueryFails(tableData.tableName)
  /\ \E k \in GridKeys : KeyTableData(k, TRUE, TRUE)

\* C17: after every keystroke in the filter input that leaves a non-empty
\* text t, the grid displays page 0 of the records matching t, its page index
\* is 0 and its filtered total is the number of matching records.
C17_TypingShowsCurrentText ==
  [][FilterKeystroke
       => /\ tableData'.page = 0
          /\ tableData'.fTotalRows =
               Len(Matching(tableData.tableName, tableData.fCol, tableData'.fInput))
          /\ Displays(tableData', FirstMatchingPage(tableData, tableData'.fInput))]_vars

\* Typing on a later page of a collection: more records match than fit a page.
C17_Witness ==
  /\ tableData.fState = "filterInput" /\ tableData.fInput # << >>
  /\ tableData.fPrevPage > 0 /\ tableData.page = 0
  /\ tableData.fTotalRows > tableData.pageSize
  /\ Len(tableData.tRows) = tableData.pageSize

\* -------------------------------------------------------------------- C18
\* A key typed into the filter input empties a text that was not empty.
FilterTextEmptied ==
  /\ tableData.fState = "filterInput" /\ tableData.fInput # << >>
  /\ tableData'.fState = "filterInput" /\ tableData'.fInput = << >>
  /\ \E k \in GridKeys : \E fetchOk, countOk \in Answers(k) :
       KeyTableData(k, fetchOk, countOk)

\* C18: emptying the filter text restores the unfiltered page: the rows are
\* those of the page shown before the filter was opened, the page index is
\* that page's index again, and the filtered total is cleared.
C18_EmptyTextRestoresPage ==
  [][FilterTextEmptied
       => /\ Displays(tableData', tableData.allRows)
          /\ tableData'.fTotalRows = 0
          /\ tableData'.page = tableData.fPrevPage]_vars

\* -------------------------------------------------------------------- C19
\* Esc pressed in the column picker or in the filter input.
CancelPress ==
  /\ tableData.fState \in {"filterPickCol", "filterInput"}
  /\ KeyTableData("esc", TRUE, TRUE)

\* The filter key pressed while browsing.
TriggerPress == tableData.fState = "filterOff" /\ KeyTableData("f", TRUE, TRUE)

\* C19: cancelling the filter dialogue leaves the grid browsing with no
\* filter (flag off, committed text empty, filtered count 0), on the page
\* index it had when the filter key was pressed, displaying the stored rows.
\* The page index of the trigger press is the one remembered at that press
\* and kept for the whole dialogue.
C19_CancelRestoresTriggerPage ==
  /\ [][TriggerPress => tableData'.fPrevPage = tableData.page]_vars
  /\ [][(tableData.fState # "filterOff" /\ tableData'.fState # "filterOff")
          => tableData'.fPrevPage = tableData.fPrevPage]_vars
  /\ [][CancelPress
          => /\ tableData'.fState = "filterOff"
             /\ ~tableData'.fActive /\ tableData'.fQuery = << >>
             /\ tableData'.fTotalRows = 0
             /\ tableData'.page = tableData.fPrevPage
             /\ tableData'.allRows = tableData.allRows
             /\ Displays(tableData', tableData.allRows)]_vars

\* Back on a later page after a cancel: the dialogue was opened there, and
\* nothing is left of it.
C19_Witness ==
  /\ tableData.fState = "filterOff" /\ ~tableData.fActive
  /\ tableData.fPrevPage > 0 /\ tableData.page = tableData.fPrevPage
  /\ tableData.fCol # << >> /\ tableData.fInput = << >>
  /\ tableData.fTotalRows = 0 /\ Len(tableData.tRows) > 0

\* -------------------------------------------------------------------- C20
\* Enter pressed in the filter input.
ConfirmPress == tableData.fState = "filterInput" /\ KeyTableData("enter", TRUE, TRUE)

\* The number of pages that hold n records.
PagesFor(n, size) == IF n <= 0 THEN 1 ELSE (n + size - 1) \div size

\* The step issues exactly one command, a fetch of page p of the grid's
\* collection: filtered by the committed column and text when a filter is
\* active, unfiltered otherwise.
IssuesFetchFor(p) ==
  \E c \in BagToSet(pending') :
    /\ pending' = pending (+) SetToBag({c})
    /\ c.tableName = tableData.tableName /\ c.page = p
    /\ c.pageSize = tableData.pageSize
    /\ IF tableData.fActive
       THEN c.kind = "loadFilteredPage" /\ c.fCol = tableData.fCol
                                        /\ c.fQuery = tableData.fQuery
       ELSE c.kind = "loadPage"

\* A paging key or gesture pressed while browsing issues a command.
PagingFetch(k) ==
  /\ tableData.fState = "filterOff"
  /\ KeyTableData(k, TRUE, TRUE)
  /\ pending' # pending

\* C20: confirming the filter input leaves the grid browsing; with a
\* non-empty text t on column c the filter (c, t) is active and the page
\* count is that of the filtered count, with an empty text no filter is
\* active. While browsing the committed filter stays as it is, and every
\* fetch issued by a paging key is for page + 1 or page - 1, filtered by
\* (c, t) when the filter is active and unfiltered when it is not.
C20_CommittedFilterDrivesPaging ==
  /\ [][ConfirmPress
          => /\ tableData'.fState = "filterOff"
             /\ tableData'.fActive = (tableData.fInput # << >>)
             /\ tableData'.fQuery = tableData.fInput
             /\ tableData'.fCol = tableData.fCol
             /\ tableData'.fTotalRows = tableData.fTotalRows
             /\ tableData'.fActive =>
                  totalPages(tableData') =
                    PagesFor(tableData.fTotalRows, tableData.pageSize)
             /\ ~tableData'.fActive =>
                  totalPages(tableData') =
                    PagesFor(tableData.totalRows, tableData.pageSize)]_vars
  /\ [][(tableData.fState = "filterOff" /\ tableData'.fState = "filterOff")
          => /\ tableData'.fActive = tableData.fActive
             /\ tableData'.fQuery = tableData.fQuery
             /\ tableData'.fCol = tableData.fCol]_vars
  /\ [][\A k \in {"]", "down"} : PagingFetch(k) => IssuesFetchFor(tableData.page + 1)]_vars
  /\ [][\A k \in {"[", "up"} : PagingFetch(k) => IssuesFetchFor(tableData.page - 1)]_vars

\* A filter committed with more matches than fit a page, and the fetch of
\* its next page in flight.
C20_Witness ==
  /\ tableData.fState = "filterOff" /\ tableData.fActive
  /\ tableData.fQuery # << >> /\ totalPages(tableData) > 1
  /\ \E c \in BagToSet(pending) :
       /\ c.kind = "loadFilteredPage" /\ c.page = tableData.page + 1
       /\ c.fCol = tableData.fCol /\ c.fQuery = tableData.fQuery

\* -------------------------------------------------------------------- C21
\* ceil(total / size) for total > 0.
CeilDiv(total, size) == (total + size - 1) \div size

\* The grid browses collection t without a filter.
BrowsingUnfiltered ==
  dataLoaded /\ tableData.fState = "filterOff" /\ ~tableData.fActive

\* The page index, the page count and the number of rows shown agree with
\* the number of records T of the open collection and the page size S.
PageShape ==
  LET T == CountRows(tableData.tableName)
      S == tableData.pageSize
  IN T > 0 => /\ totalPages(tableData) = CeilDiv(T, S)
              /\ tableData.page \in 0..(CeilDiv(T, S) - 1)
              /\ Len(tableData.tRows) = Min(S, T - tableData.page * S)

\* A next-page press while the grid browses without a filter.
NextPagePress == BrowsingUnfiltered /\ KeyTableData("]", TRUE, TRUE)

\* Every fetch in flight is one a next-page press issued.
OnlyNextPageFetches ==
  \A c \in InFlight : c.kind = "loadPage" /\ ~c.cursorEnd

\* C21: a collection of T > 0 records browsed with page size S is opened on
\* page 0 of ceil(T/S) pages and page p shows min(S, T - p*S) rows; a
\* next-page press below the last page changes nothing but to fetch the next
\* page, and each such fetch, when it completes, moves the grid one page
\* forward, so that k presses from page 0 end on page min(k, ceil(T/S) - 1);
\* a next-page press on the last page does nothing.
C21_PagesOfCollection ==
  /\ [](BrowsingUnfiltered => PageShape)
  /\ [][NextPagePress
          => IF tableData.page < CeilDiv(CountRows(tableData.tableName),
                                         tableData.pageSize) - 1
             THEN /\ tableData' = tableData
                  /\ \E c \in BagToSet(pending') :
                       /\ pending' = pending (+) SetToBag({c})
                       /\ c.kind = "loadPage" /\ ~c.cursorEnd
                       /\ c.tableName = tableData.tableName
             ELSE UNCHANGED <<tableData, pending>>]_vars
  /\ [][\A c \in InFlight :
          (BrowsingUnfiltered /\ OnlyNextPageFetches /\ PageDataLoaded(c))
          => tableData'.page = tableData.page + 1]_vars

\* -------------------------------------------------------------------- C22
\* The extension of path is, whatever its letter case, one of the three
\* recognized ones.
RecognizedExtension(path) ==
  \E e \in validExtensions :
    /\ Len(Ext(path)) = Len(e)
    /\ \A i \in 1..Len(e) : Lower(Ext(path)[i]) = e[i]

\* The entries a path names: the entry with that name, or the directory whose
\* name the path follows with separators.
Named(path) ==
  {f \in FileSystem :
     \/ f.path = path
     \/ /\ f.kind \in {"dir", "locked"}
        /\ Len(path) > Len(f.path)
        /\ SubSeq(path, 1, Len(f.path)) = f.path
        /\ \A i \in (Len(f.path) + 1)..Len(path) : path[i] = "/"}

\* The errors a submitted path may produce: those of the first check, in the
\* order existence, directory, extension, open, list, that the path fails;
\* none when it passes them all.  Separators alone name the root directory.
\* A path that names no entry fails the first check with the message of the
\* picker or, when the path runs through a regular file or a directory that
\* cannot be searched, with that of os.Stat.
FirstFailure(path) ==
  IF \A i \in 1..Len(path) : path[i] = "/" THEN {"path is a directory, not a file"}
  ELSE IF Named(path) = {}
  THEN {"file not found", "not a directory", "permission denied"}
  ELSE LET f == CHOOSE g \in Named(path) : TRUE
       IN IF f.kind \in {"dir", "locked"} THEN {"path is a directory, not a file"}
          ELSE IF ~RecognizedExtension(path) THEN {"unsupported file extension"}
          ELSE IF ~f.opens THEN {"open failed"}
          ELSE IF ~f.lists THEN {"list failed"}
          ELSE {}

\* C22: a submit with an empty path does nothing; with a path that fails a
\* check the picker stays, its inline error is that of the first failed
\* check and no event is emitted; otherwise exactly one database-opened
\* event with the handle and the collection list is emitted.
C22_SubmitValidatesPath ==
  [][PickerKeyEnter
       => LET path == submitPath(picker)
          IN IF path = << >> THEN UNCHANGED <<picker, pending>>
             ELSE IF FirstFailure(path) # {}
             THEN /\ \E e \in FirstFailure(path) : picker' = [picker EXCEPT !.pathErr = e]
                  /\ pending' = pending
                  /\ run' = "picking"
             ELSE /\ pending' = pending (+) SetToBag({[kind |-> "dbOpened", db |-> path,
                                                       tables |-> ListTables]})
                  /\ picker' = picker]_vars

\* A listed file with an upper-case extension was opened, then a typed path
\* that runs through a regular file was refused.
C22_Witness ==
  /\ run = "picking"
  /\ picker.pathErr = "not a directory" /\ picker.input = PathUnderFile
  /\ \E c \in BagToSet(pending) : c.kind = "dbOpened" /\ c.db = PathUpper
  /\ Load(pending) = 1

\* -------------------------------------------------------------------- C23
\* The picker's focus is on the file list, on one of its files.
ListFocusValid ==
  picker.focused = "focusList"
    => (Len(picker.files) > 0 /\ picker.cursor \in 0..(Len(picker.files) - 1))

\* C23: with files listed, Up on the first file moves the focus to the text
\* field, Down on the text field moves it to the first file, and Down on the
\* last file changes nothing; with no files listed Up and Down leave the
\* focus on the text field; and the focus is never on the list unless the
\* cursor is on one of its files.
C23_PickerFocusMoves ==
  /\ [](ListFocusValid /\ (Len(picker.files) = 0 => picker.focused = "focusInput"))
  /\ [][(PickerKeyUp /\ Len(picker.files) > 0
           /\ picker.focused = "focusList" /\ picker.cursor = 0)
          => (picker'.focused = "focusInput" /\ picker'.inputFocus)]_vars
  /\ [][(PickerKeyDown /\ Len(picker.files) > 0 /\ picker.focused = "focusInput")
          => (picker'.focused = "focusList" /\ picker'.cursor = 0
              /\ ~picker'.inputFocus)]_vars
  /\ [][(PickerKeyDown /\ picker.focused = "focusList"
           /\ picker.cursor = Len(picker.files) - 1)
          => picker' = picker]_vars
  /\ [][((PickerKeyUp \/ PickerKeyDown) /\ Len(picker.files) = 0)
          => picker' = picker]_vars

\* Back on the last file after a visit to the text field, where a rune was
\* typed.
C23_Witness ==
  /\ picker.focused = "focusList" /\ picker.cursor = Len(picker.files) - 1
  /\ picker.input # << >> /\ ~picker.inputFocus

\* -------------------------------------------------------------------- C24
\* The refresh key pressed while browsing.
RefreshPress == tableData.fState = "filterOff" /\ KeyTableData("ctrl+r", TRUE, TRUE)

\* C24: the refresh key fetches the current page again, filtered as the
\* committed filter says, and leaves the page index and the filter as they
\* are.
C24_RefreshRefetchesPage ==
  [][RefreshPress
       => /\ IssuesFetchFor(tableData.page)
          /\ tableData'.page = tableData.page
          /\ tableData'.fActive = tableData.fActive
          /\ tableData'.fCol = tableData.fCol
          /\ tableData'.fQuery = tableData.fQuery]_vars

\* -------------------------------------------------------------------- C25
\* The step hands exactly one task to the runtime, cursor blinks aside, and
\* the task does not hold the rows of a result yet.
DispatchesTask ==
  \E c \in BagToSet(pending') :
    /\ c.kind # "blink"
    /\ Tasks(pending') = Tasks(pending) (+) SetToBag({c})
    /\ c.rows = << >> /\ c.columns = << >>

\* The execute key pressed in the query overlay on a statement the data
\* source accepts.
QueryExecuted ==
  /\ \E k \in RunKeys : KeyQueryInput(k)
  /\ queryInput.text # << >> /\ ExecQuery(queryInput.text).ok

\* C25: the step that handles a key triggering a data-source operation, a
\* keystroke in the filter input or the execute key of the query overlay,
\* dispatches the operation as a task and returns without its result: the
\* grid's rows and counts are not yet replaced.
C25_OperationsAreAsynchronous ==
  /\ [][QueryExecuted => DispatchesTask]_vars
  /\ [][FilterKeystroke
          => /\ DispatchesTask
             /\ tableData'.tRows = tableData.tRows
             /\ tableData'.fTotalRows = tableData.fTotalRows]_vars

\* -------------------------------------------------------------------- C26
\* The grid shows no more columns than the view has, and neither the rows
\* rendered nor the page stored exceed the page size.
GridWithinPage ==
  /\ tableData.displayCols <= Len(tableData.columns)
  /\ Len(tableData.tRows) <= tableData.pageSize

\* A filter decides what the grid m shows: a committed one, or a non-empty
\* text being typed.
FilterInEffect(m) == m.fActive \/ (m.fState = "filterInput" /\ m.fInput # << >>)

\* C26: in every state of the grid displayCols <= number of columns and at
\* most pageSize rows are rendered; the number of rendered rows changes only
\* to the record count of the page last fetched: the page a completion has
\* just brought, the filtered page 0 a keystroke in the filter input has just
\* fetched or, with no filter in effect, the page the grid stores.
C26_RowsAreAFetchedPage ==
  /\ [](dataLoaded => GridWithinPage)
  /\ [][Len(tableData'.tRows) # Len(tableData.tRows)
          => \/ \E c \in InFlight :
                  /\ PageDataLoaded(c)
                  /\ Len(tableData'.tRows) = Len(RunCmd(c).rows)
             \/ /\ tableData'.fState = "filterInput" /\ tableData'.fInput # << >>
                /\ Len(tableData'.tRows) =
                     Len(FirstMatchingPage(tableData', tableData'.fInput))
             \/ /\ ~FilterInEffect(tableData')
                /\ Len(tableData'.tRows) = Len(tableData'.allRows)]_vars

\* -------------------------------------------------------------------- C27
\* value contains text as a substring, letter case ignored.
ContainsNoCase(value, text) ==
  \E i \in 1..(Len(value) - Len(text) + 1) :
    \A j \in 1..Len(text) : Lower(value[i + j - 1]) = Lower(text[j])

\* The records of t whose value in column contains text.
Containing(t, column, text) ==
  LET pos == ColumnPos(t, column)
      hit(r) == ContainsNoCase(r[pos], text)
  IN SelectSeq(TableRecords(t), hit)

\* C27: for the non-empty text q in the filter input and its column c, the
\* filtered fetch returns, within any limit and offset, exactly the records
\* whose value in c contains q as a case-insensitive substring, the filtered
\* count is the number of those records, and the grid shows their first page.
C27_FilterIsSubstringMatch ==
  (tableData.fState = "filterInput" /\ tableData.fInput # << >>)
    => LET t == tableData.tableName
           c == tableData.fCol
           q == tableData.fInput
       IN /\ \A limit \in 1..tableData.pageSize : \A offset \in 0..CountRows(t) :
               FilterColumn(t, c, q, limit, offset)
                 = LimitOffset(Containing(t, c, q), limit, offset)
          /\ CountFilteredRows(t, c, q) = Len(Containing(t, c, q))
          /\ tableData.fTotalRows = Len(Containing(t, c, q))
          /\ Displays(tableData, LimitOffset(Containing(t, c, q), tableData.pageSize, 0))

\* -------------------------------------------------------------------- C28
\* C28: after a resize to any terminal size the left pane width, the right
\* pane width and the pane height are positive, and the two widths add up
\* to the terminal width minus the margin of 4.
C28_PaneSizesClamped ==
  [][\A sz \in FitSizes :
       WindowSize(sz[1], sz[2])
         => /\ leftWidth' > 0
            /\ rightWidth' > 0
            /\ paneHeightOf(height') > 0
            /\ leftWidth' + rightWidth' = sz[1] - 4]_vars

\* -------------------------------------------------------------------- C29
\* n is the length of the longest of the header and the values the rows
\* hold at position i (counted from 0); rows without that position are
\* skipped.
IsLongest(n, i, header, rows) ==
  LET has(j) == Len(rows[j]) >= i + 1
  IN /\ \/ n = Len(header)
        \/ \E j \in 1..Len(rows) : has(j) /\ n = Len(rows[j][i + 1])
     /\ n >= Len(header)
     /\ \A j \in 1..Len(rows) : has(j) => n >= Len(rows[j][i + 1])

\* rows with every row cut to at most cut values.
CutRows(rows, cut) ==
  [j \in 1..Len(rows) |-> SubSeq(rows[j], 1, Min(cut, Len(rows[j])))]

\* C29: the measured width of column i is max(10, min(40, L + 3)), L being
\* the longest of the header and the i-th value of every row that has one.
C29_MeasuredWidth ==
  dataLoaded =>
    \A i \in 0..(Len(tableData.columns) - 1) : \A cut \in 0..Len(tableData.columns) :
      LET rows == CutRows(tableData.allRows, cut)
          header == tableData.columns[i + 1]
      IN \E L \in 0..(maxColWidth + 10) :
           /\ IsLongest(L, i, header, rows)
           /\ measureColWidth(i, header, rows) = Max(10, Min(40, L + 3))

\* One column measured from its value (20 + 3) and one capped at 40 by its
\* header.
C29_Witness ==
  /\ dataLoaded /\ Len(tableData.columns) >= 2 /\ Len(tableData.allRows) = 1
  /\ measureColWidth(0, tableData.columns[1], tableData.allRows) = 23
  /\ measureColWidth(1, tableData.columns[2], tableData.allRows) = 40
  /\ term # <<0, 0>>

\* -------------------------------------------------------------------- C30
\* The measured widths of the first n columns, added up.
RECURSIVE MeasuredSum(_, _, _)
MeasuredSum(columns, rows, n) ==
  IF n = 0 THEN 0
  ELSE MeasuredSum(columns, rows, n - 1) + measureColWidth(n - 1, columns[n], rows)

\* Column i (counted from 0) fits after the columns before it: their
\* measured widths, its own, and 12 for the indicator if columns remain.
FitsAfterEarlier(columns, rows, w, i) ==
  MeasuredSum(columns, rows, i) + measureColWidth(i, columns[i + 1], rows)
    + (IF i < Len(columns) - 1 THEN indicatorColLen ELSE 0)
    <= Max(10, w - 2)

\* Column i is accepted: it is the first, or it and every column between the
\* first and it fit after their earlier ones.
Accepted(columns, rows, w, i) ==
  \A k \in 1..i : FitsAfterEarlier(columns, rows, w, k)

\* C30: at every inner width the Layout Fitter displays exactly the accepted
\* columns, which are a prefix of the column list: no column after the first
\* rejected one is displayed.
C30_FitAcceptsPrefix ==
  (dataLoaded /\ Len(tableData.columns) > 0) =>
    \A w \in FitWidths :
      LET columns == tableData.columns
          rows == tableData.allRows
          fit == fitColumns(columns, rows, w)
      IN \A i \in 0..(Len(columns) - 1) :
           (i < fit.displayCols) <=> Accepted(columns, rows, w, i)

\* One column of three displayed: the second does not fit, and the third,
\* which would fit next to the first, is not looked at.
C30_Witness ==
  /\ dataLoaded /\ Len(tableData.columns) = 3 /\ tableData.displayCols = 1
  /\ term # <<0, 0>>
  /\ ~FitsAfterEarlier(tableData.columns, tableData.allRows, tableData.width - 2, 1)
  /\ measureColWidth(0, tableData.columns[1], tableData.allRows)
       + measureColWidth(2, tableData.columns[3], tableData.allRows)
       <= Max(10, tableData.width - 4)

\* -------------------------------------------------------------------- C31
\* What is left of the available width once the first d columns have their
\* measured widths and, if columns are hidden, the indicator its 12.
Leftover(columns, rows, w, d) ==
  Max(10, w - 2) - MeasuredSum(columns, rows, d)
    - (IF d < Len(columns) THEN indicatorColLen ELSE 0)

\* C31: every displayed column is widened by the same floor(leftover /
\* displayCols), by nothing when leftover <= 0, and the widened columns plus
\* the indicator reservation stay within the available width whenever the
\* measured ones did.
C31_LeftoverSharedEvenly ==
  (dataLoaded /\ Len(tableData.columns) > 0) =>
    \A w \in FitWidths :
      LET columns == tableData.columns
          rows == tableData.allRows
          fit == fitColumns(columns, rows, w)
          d == fit.displayCols
          left == Leftover(columns, rows, w, d)
          share == IF left > 0 THEN left \div d ELSE 0
      IN /\ \A k \in 1..d :
              fit.widths[k] = measureColWidth(k - 1, columns[k], rows) + share
         /\ left >= 0 =>
              SumSeq(fit.widths) + (IF d < Len(columns) THEN indicatorColLen ELSE 0)
                <= Max(10, w - 2)

\* After a resize both columns of a two-column result are shown, each wider
\* than its measure.
C31_Witness ==
  /\ dataLoaded /\ term # <<0, 0>>
  /\ Len(tableData.columns) = 2 /\ tableData.displayCols = 2
  /\ \A k \in 1..2 :
       tableData.tCols[k].Width
         > measureColWidth(k - 1, tableData.columns[k], tableData.allRows)

\* -------------------------------------------------------------------- C32
\* C32: for a result with no columns the fitter returns no displayed columns
\* and no widths at every width, and the header built from that is empty: no
\* column cell and no "+ N cols" cell.
C32_NoColumnsNoHeader ==
  (dataLoaded /\ Len(tableData.columns) = 0) =>
    /\ \A w \in FitWidths :
         LET fit == fitColumns(tableData.columns, tableData.allRows, w)
         IN /\ fit.displayCols = 0
            /\ fit.widths = << >>
            /\ buildTableColumns(tableData.columns, fit.displayCols, fit.widths, 0) = << >>
    /\ tableData.displayCols = 0
    /\ tableData.tCols = << >>

\* A statement that returned no columns is shown in the grid.
C32_Witness ==
  /\ dataLoaded /\ ~showQuery
  /\ Len(tableData.columns) = 0
  /\ focused = "paneData"

\* -------------------------------------------------------------------- C33
\* Enter pressed in the column picker.
PickConfirmPress == tableData.fState = "filterPickCol" /\ KeyTableData("enter", TRUE, TRUE)

\* A page-navigation or select key pressed outside the browsing state.
DialogueNavPress ==
  /\ tableData.fState # "filterOff"
  /\ \E k \in NavKeys \cup {"enter"} :
       \E fetchOk, countOk \in Answers(k) : KeyTableData(k, fetchOk, countOk)

\* C33: the filter sub-state changes only by the filter key while browsing
\* (to the picker, remembering the page), by confirm in the picker (to the
\* input, recording the highlighted column and clearing the text), by cancel
\* in the picker or the input and by confirm in the input (both to browsing);
\* each of these presses makes its change; and outside browsing the
\* page-navigation and select keys issue no fetch and no record-selected
\* event (confirm in the picker starts the blink of the input's cursor).
C33_FilterStateMachine ==
  /\ [][tableData'.fState # tableData.fState
          => \/ /\ TriggerPress /\ tableData'.fState = "filterPickCol"
                /\ tableData'.fPrevPage = tableData.page
             \/ /\ PickConfirmPress /\ tableData'.fState = "filterInput"
                /\ tableData'.fCol = tableData.columns[tableData.fColIndex + 1]
                /\ tableData'.fInput = << >>
             \/ CancelPress /\ tableData'.fState = "filterOff"
             \/ ConfirmPress /\ tableData'.fState = "filterOff"]_vars
  /\ [][(TriggerPress \/ PickConfirmPress \/ CancelPress \/ ConfirmPress)
          => tableData'.fState # tableData.fState]_vars
  /\ [][DialogueNavPress => Tasks(pending') = Tasks(pending)]_vars

\* The picker was confirmed on the second column after an earlier filter text
\* had been committed: the input starts empty again.
C33_Witness ==
  /\ dataLoaded /\ tableData.fState = "filterInput"
  /\ tableData.fColIndex = 1 /\ tableData.fCol = tableData.columns[2]
  /\ tableData.fInput = << >>
  /\ tableData.fQuery # << >>

\* -------------------------------------------------------------------- C34
\* The step issues exactly one fetch, of page p, that asks for the cursor on
\* the last row (atEnd) or on the first.
IssuesFetchWithCursor(p, atEnd) ==
  /\ IssuesFetchFor(p)
  /\ \A c \in BagToSet(pending') :
       pending' = pending (+) SetToBag({c}) => c.cursorEnd = atEnd

\* The cursor is on the last displayed row / on the first.
OnLastRow == tableData.tCursor >= Len(tableData.tRows) - 1
OnFirstRow == tableData.tCursor <= 0

\* The page count the current mode pages over.
PagedTotal ==
  PagesFor(IF tableData.fActive THEN tableData.fTotalRows ELSE tableData.totalRows,
           tableData.pageSize)

\* A page fetched with the given cursor request is swapped into the grid.
PageArrives(atEnd) ==
  \E c \in InFlight :
    /\ c.cursorEnd = atEnd /\ PageDataLoaded(c)
    /\ tableData' # tableData

\* C34: the next-page key, and move-down on the last displayed row, fetch
\* page + 1 with the cursor requested on the first row when a next page
\* exists; the previous-page key, and move-up on the first row, fetch
\* page - 1 with the cursor requested on the last row when a previous page
\* exists; when such a page arrives the cursor is placed as requested; and
\* move-up or move-down anywhere else moves the cursor by one row and issues
\* no fetch.
C34_AutoPagingAtEdges ==
  /\ [][((KeyTableData("]", TRUE, TRUE) \/ (KeyTableData("down", TRUE, TRUE) /\ OnLastRow))
          /\ tableData.page < PagedTotal - 1)
          => IssuesFetchWithCursor(tableData.page + 1, FALSE) /\ tableData' = tableData]_vars
  /\ [][((KeyTableData("[", TRUE, TRUE) \/ (KeyTableData("up", TRUE, TRUE) /\ OnFirstRow))
          /\ tableData.page > 0)
          => IssuesFetchWithCursor(tableData.page - 1, TRUE) /\ tableData' = tableData]_vars
  /\ [][(KeyTableData("down", TRUE, TRUE) /\ ~OnLastRow)
          => /\ pending' = pending
             /\ tableData' = [tableData EXCEPT !.tCursor = tableData.tCursor + 1]]_vars
  /\ [][(KeyTableData("up", TRUE, TRUE) /\ ~OnFirstRow)
          => /\ pending' = pending
             /\ tableData' = [tableData EXCEPT !.tCursor = tableData.tCursor - 1]]_vars
  /\ [][PageArrives(FALSE) => tableData'.tCursor = 0]_vars
  /\ [][PageArrives(TRUE) => tableData'.tCursor = Len(tableData'.tRows) - 1]_vars

\* With a filter committed, a fetch of the previous page that asks for the
\* cursor on the last row is in flight.
C34_Witness ==
  /\ dataLoaded /\ tableData.fState = "filterOff" /\ tableData.fActive
  /\ tableData.page > 0 /\ OnFirstRow
  /\ \E c \in InFlight :
       /\ c.kind = "loadFilteredPage" /\ c.cursorEnd
       /\ c.page = tableData.page - 1

\* -------------------------------------------------------------------- C35
\* The words of the lines, line after line.
RECURSIVE LineWords(_)
LineWords(lines) ==
  IF lines = << >> THEN << >> ELSE Fields(Head(lines)) \o LineWords(Tail(lines))

\* A word cut into pieces of w characters, the last one shorter.
Chunks(word, w) ==
  [k \in 1..CeilDiv(Len(word), w) |-> SubSeq(word, (k - 1) * w + 1, Min(k * w, Len(word)))]

\* The words, each whole when it is at most w long and cut into pieces of w
\* when it is longer.
RECURSIVE Pieces(_, _)
Pieces(words, w) ==
  IF words = << >> THEN << >>
  ELSE (IF Len(Head(words)) <= w THEN <<Head(words)>> ELSE Chunks(Head(words), w))
       \o Pieces(Tail(words), w)

\* lines is a wrapping of text to width w: at least one line, none longer
\* than w, the words in their order, only the words longer than w cut.
Wraps(text, lines, w) ==
  /\ Len(lines) >= 1
  /\ \A i \in 1..Len(lines) : Len(lines[i]) <= w
  /\ LineWords(lines) = Pieces(Fields(text), w)

\* C35: for every width w > 0, wrapText(text, w) returns at least one line,
\* every line at most w characters wide, the words of the text in their
\* original order, and a word is cut only when it alone is longer than w;
\* the lines the row detail shows are wrapText of the value at the width
\* left beside the labels.
C35_WrapFitsWidth ==
  showDetail =>
    \A i \in 1..Len(rowDetail.content) :
      LET e == rowDetail.content[i]
          shown == detailValueWidth(tableData.columns, width)
      IN /\ \A w \in 1..MaxWrapWidth : Wraps(e.value, wrapText(e.value, w), w)
         /\ e.lines = wrapText(e.value, shown)
         /\ Wraps(e.value, e.lines, shown)

\* The detail of a record whose value is one word of 12 characters beside a
\* 21-character label: the word is cut after its 10th character.
C35_Witness ==
  /\ showDetail /\ Len(rowDetail.content) = 1
  /\ Len(rowDetail.content[1].label) = 21
  /\ Len(rowDetail.content[1].value) = 12
  /\ Fields(rowDetail.content[1].value) = <<rowDetail.content[1].value>>
  /\ Len(rowDetail.content[1].lines) = 2
  /\ Len(rowDetail.content[1].lines[1]) = 10

\* -------------------------------------------------------------------- C36
\* C36: rendering never modifies the stored rows: after construction, a
\* resize, filter keystrokes and cancel, every stored row is a record of the
\* data source in every column, the hidden ones included.
C36_StoredRowsUntouched ==
  dataLoaded =>
    \A i \in 1..Len(tableData.allRows) :
      /\ Len(tableData.allRows[i]) = Len(tableData.columns)
      /\ tableData.allRows[i] \in SourceRecords

\* -------------------------------------------------------------------- C37
\* The cells of a row in the columns the grid displays.
DisplayedCells(row) == SubSeq(row, 1, Min(tableData.displayCols, Len(row)))

\* Select pressed while browsing with at least one row displayed.
SelectPress ==
  /\ dataLoaded /\ tableData.fState = "filterOff"
  /\ Len(tableData.tRows) > 0
  /\ KeyTableData("enter", TRUE, TRUE)

\* C37: while browsing, a committed filter included, select on a displayed
\* row emits one record-selected event, and its values are those of the
\* record displayed at the cursor row.
C37_SelectEmitsDisplayedRecord ==
  [][SelectPress
       => \E c \in BagToSet(pending') :
            /\ pending' = pending (+) SetToBag({c})
            /\ c.kind = "rowSelected"
            /\ DisplayedCells(c.rows[1])
                 = DisplayedCells(tableData.tRows[tableData.tCursor + 1])]_vars

\* -------------------------------------------------------------------- C38
\* C38: the query overlay is closed only by a close message its own dismiss
\* key made or by its query result: a close message made by dismissing the
\* row detail, delivered after the query overlay was opened, does not close
\* it.
C38_CloseBelongsToItsOverlay ==
  /\ [][\A c \in InFlight :
          (showQuery /\ CloseDetail(c) /\ ~showQuery') => c.from = "queryInput"]_vars
  /\ [][(showQuery /\ ~showQuery')
          => \E c \in InFlight : CloseDetail(c) \/ QueryResult(c)]_vars

\* -------------------------------------------------------------------- C39
\* C39: whenever confirm is pressed in the column picker the highlighted
\* index is inside the column list, 0 <= index < number of columns, for every
\* grid the session can hold, so the press reads a column and the program
\* keeps running.
C39_PickerIndexInRange ==
  [][(tableData.fState = "filterPickCol" /\ KeyTableData("enter", TRUE, TRUE))
       => /\ 0 <= tableData.fColIndex
          /\ tableData.fColIndex < Len(tableData.columns)
          /\ run' = "running"]_vars

====
